---------------------------- MODULE Spec2Model ----------------------------
(***************************************************************************)
(* The Gateway's durable booking broker: BrokerStorage (two sled trees     *)
(* with the scheduling index entries written into the same trees),         *)
(* BrokerHandler::handle_submit_booking, the ForwarderWorker and the       *)
(* NotifierWorker, together with the process crash / restart and the       *)
(* storage I/O errors the broker is specified against.                     *)
(*                                                                         *)
(* Conventions.  Option<T> is a sequence: <<>> is None, <<x>> is Some(x).  *)
(* A serialized record is the one-element sequence <<record>>; the empty   *)
(* byte string &[] that the index entries carry is <<>>.  A string built   *)
(* by format! is the sequence of its pieces.  Timestamps are milliseconds  *)
(* counted from 1 700 000 000 000 (epoch ms), so that every timestamp the  *)
(* program formats has 13 decimal digits.                                  *)
(***************************************************************************)
EXTENDS Integers, Sequences, FiniteSets, TLC

(***************************************************************************)
(* Bounds of the model, and the configuration the workers are built with.  *)
(***************************************************************************)
MaxSubmits == 2
MaxFaults == 1
MaxCrashes == 1
MaxNow == 1
MaxRetryAttempts == 1
InitialBackoffMs == 1000

(***************************************************************************)
(* Program constants.                                                      *)
(***************************************************************************)
MAX_BACKOFF_MS == 300000
JITTER_MS == 1000
BatchLimit == 10
IndexSkipLen == 64
MaxExponent == 20

None == <<>>
Some(x) == <<x>>
IsSome(o) == Len(o) > 0
Unwrap(o) == o[1]

(***************************************************************************)
(* Correlation ids a client may choose.  CidLongA has 44 characters,       *)
(* CidShort is the identifier of the specification's happy path;           *)
(* CidsSorted lists them in byte order, the order sled iterates in.        *)
(***************************************************************************)
CidShort == "c1"
CidLongA == "gw-booking-00000000-0000-0000-0000-00000000a"
CidLongB == "gw-booking-00000000-0000-0000-0000-00000000b"
CidLongC == "gw-booking-00000000-0000-0000-0000-00000000c"
CidsSorted == <<CidShort, CidLongA>>
Cids == {CidsSorted[i] : i \in 1..Len(CidsSorted)}
\* the ids of the broker and of the storage calls made on their own
\* (ApiCids), all in byte order
CidsInByteOrder == <<CidShort, CidLongA, CidLongB, CidLongC>>
ApiCidsSorted == <<CidLongA, CidLongB, CidLongC>>
ApiCids == {ApiCidsSorted[i] : i \in 1..Len(ApiCidsSorted)}
CidRank(c) == CHOOSE i \in 1..Len(CidsInByteOrder) : CidsInByteOrder[i] = c

(***************************************************************************)
(* Payloads of a SubmitBooking message (BookingData, NotifyData).          *)
(***************************************************************************)
Payloads ==
    { [booking |-> [date |-> "2026-01-15", start_time |-> "10:00",
                    end_time |-> "11:00", name |-> "Alice"],
       notify  |-> [email |-> "a@x.io"]],
      [booking |-> [date |-> "2026-01-15", start_time |-> "10:00",
                    end_time |-> "11:00", name |-> "Bob"],
       notify  |-> [email |-> "b@x.io"]] }

\* serde_json::to_string / serde_json::from_str
ToJsonString(v) == <<"json", v>>
FromJsonStr(s) ==
    IF Len(s) = 2 /\ s[1] = "json" THEN [ok |-> TRUE, val |-> s[2]]
    ELSE [ok |-> FALSE]

\* bincode::serialize / bincode::deserialize of a record
Serialize(rec) == <<rec>>
EmptyBytes == <<>>
Deserialize(bytes) ==
    IF Len(bytes) = 0 THEN [ok |-> FALSE] ELSE [ok |-> TRUE, val |-> bytes[1]]

(***************************************************************************)
(* Keys of a tree.  A record key is the correlation id; an index key is    *)
(* format!("queued:{}:{}", next_attempt_at, correlation_id) (or            *)
(* "pending:...").  KeyString is the key as the bytes sled stores.         *)
(***************************************************************************)
Digit(d) ==
    CASE d = 0 -> "0" [] d = 1 -> "1" [] d = 2 -> "2" [] d = 3 -> "3"
      [] d = 4 -> "4" [] d = 5 -> "5" [] d = 6 -> "6" [] d = 7 -> "7"
      [] d = 8 -> "8" [] d = 9 -> "9"

\* decimal rendering of the i64 epoch-ms timestamp 1 700 000 000 000 + t
TsString(t) ==
    "1700000" \o Digit((t \div 100000) % 10) \o Digit((t \div 10000) % 10)
              \o Digit((t \div 1000) % 10) \o Digit((t \div 100) % 10)
              \o Digit((t \div 10) % 10) \o Digit(t % 10)

RecKey(cid) == [tag |-> "rec", at |-> 0, cid |-> cid]
IndexKey(prefix, at, cid) == [tag |-> prefix, at |-> at, cid |-> cid]
KeyString(key) ==
    IF key.tag = "rec" THEN key.cid
    ELSE key.tag \o ":" \o TsString(key.at) \o ":" \o key.cid
KeyLen(key) == Len(KeyString(key))

\* byte order of two keys: the correlation ids of the model start with a
\* byte below 'p', so every record key precedes every index key; index keys
\* of one prefix compare by the fixed-width timestamp, then by the id.
KeyLess(a, b) ==
    IF a.tag = "rec" /\ b.tag = "rec" THEN CidRank(a.cid) < CidRank(b.cid)
    ELSE IF a.tag = "rec" THEN TRUE
    ELSE IF b.tag = "rec" THEN FALSE
    ELSE \/ a.at < b.at
         \/ a.at = b.at /\ CidRank(a.cid) < CidRank(b.cid)

RECURSIVE KeysInOrder(_)
KeysInOrder(S) ==
    IF S = {} THEN <<>>
    ELSE LET m == CHOOSE k \in S : \A o \in S \ {k} : KeyLess(k, o)
         IN  <<m>> \o KeysInOrder(S \ {m})

EmptyTree == [k \in {} |-> EmptyBytes]
\* sled::Tree::insert
TreeInsert(tree, key, bytes) ==
    [k \in DOMAIN tree \cup {key} |-> IF k = key THEN bytes ELSE tree[k]]

EmptyDb == [booking_jobs |-> EmptyTree, notification_outbox |-> EmptyTree]

(***************************************************************************)
(* Storage I/O errors.  A fault names the storage call of the handler      *)
(* (op, counted from 1) and the sled call inside it (at) that fails.       *)
(***************************************************************************)
NoFault == [op |-> 0, at |-> "none"]
FaultAt(fault, n) == IF fault.op = n THEN fault.at ELSE "none"
Faults(ops, points) == {NoFault} \cup [op : ops, at : points]

\* what a storage operation hands back: the trees in memory, the trees on
\* stable storage, and Ok / Err
StoreRes(d, k, ok) == [db |-> d, disk |-> k, ok |-> ok]


(***************************************************************************)
(* BrokerStorage.  Every operation takes the trees in memory (d), the      *)
(* trees on stable storage (k) and the sled call that fails, if any.       *)
(***************************************************************************)

\* update_job_index: the sled insert of the index entry, made only for a
\* Queued job, into the booking_jobs tree itself
update_job_index(d, job) ==
    IF job.state = "Queued"
    THEN [d EXCEPT !.booking_jobs =
             TreeInsert(@, IndexKey("queued", job.next_attempt_at,
                                    job.correlation_id), EmptyBytes)]
    ELSE d

\* remove_job_index: a stub that removes nothing
remove_job_index(d, job) == d

update_notification_index(d, notif) ==
    IF notif.state = "Pending"
    THEN [d EXCEPT !.notification_outbox =
             TreeInsert(@, IndexKey("pending", notif.next_attempt_at,
                                    notif.correlation_id), EmptyBytes)]
    ELSE d

remove_notification_index(d, notif) == d

persist_booking_job_overwrite(d, k, job, at) ==
    LET key == RecKey(job.correlation_id)
        d1  == [d EXCEPT !.booking_jobs = TreeInsert(@, key, Serialize(job))]
        d2  == update_job_index(d1, job)
    IN  IF at = "contains" THEN StoreRes(d, k, FALSE)
        ELSE IF at = "insert" THEN StoreRes(d, k, FALSE)
        ELSE IF at = "index" /\ job.state = "Queued" THEN StoreRes(d1, k, FALSE)
        ELSE IF at = "flush" THEN StoreRes(d2, k, FALSE)
        ELSE StoreRes(d2, d2, TRUE)

persist_booking_job(d, k, job, at) ==
    LET key == RecKey(job.correlation_id)
        d1  == [d EXCEPT !.booking_jobs = TreeInsert(@, key, Serialize(job))]
        d2  == update_job_index(d1, job)
    IN  IF at = "contains" THEN StoreRes(d, k, FALSE)
        ELSE IF key \in DOMAIN d.booking_jobs THEN StoreRes(d, k, TRUE)
        ELSE IF at = "insert" THEN StoreRes(d, k, FALSE)
        ELSE IF at = "index" /\ job.state = "Queued" THEN StoreRes(d1, k, FALSE)
        ELSE IF at = "flush" THEN StoreRes(d2, k, FALSE)
        ELSE StoreRes(d2, d2, TRUE)

\* Result<Option<BookingJob>>
get_booking_job(d, cid, at) ==
    IF at = "get" THEN [ok |-> FALSE]
    ELSE IF RecKey(cid) \notin DOMAIN d.booking_jobs
    THEN [ok |-> TRUE, val |-> None]
    ELSE LET r == Deserialize(d.booking_jobs[RecKey(cid)])
         IN  IF r.ok THEN [ok |-> TRUE, val |-> Some(r.val)] ELSE [ok |-> FALSE]

get_notification(d, cid, at) ==
    IF at = "get" THEN [ok |-> FALSE]
    ELSE IF RecKey(cid) \notin DOMAIN d.notification_outbox
    THEN [ok |-> TRUE, val |-> None]
    ELSE LET r == Deserialize(d.notification_outbox[RecKey(cid)])
         IN  IF r.ok THEN [ok |-> TRUE, val |-> Some(r.val)] ELSE [ok |-> FALSE]

\* JobStateUpdate: the state and the optional fields of a patch
JobStateUpdate(state, attempts, next_attempt_at, last_error, http_status, central_response_json) ==
    [state |-> state, attempts |-> attempts,
     next_attempt_at |-> next_attempt_at, last_error |-> last_error,
     http_status |-> http_status,
     central_response_json |-> central_response_json]

\* the job as update_job_state rewrites it
\* the patch taken for the whole of the mutable fields: an absent field is
\* reset instead of kept
PatchedJob_resetting(job, update, t) ==
    [job EXCEPT
        !.state = update.state,
        !.attempts = IF IsSome(update.attempts)
                     THEN Unwrap(update.attempts) ELSE @,
        !.next_attempt_at = IF IsSome(update.next_attempt_at)
                            THEN Unwrap(update.next_attempt_at) ELSE @,
        !.last_error = update.last_error,
        !.http_status = update.http_status,
        !.central_response_json = update.central_response_json,
        !.updated_at = t]

PatchedJob(job, update, t) ==
    [job EXCEPT
        !.state = update.state,
        !.attempts = IF IsSome(update.attempts)
                     THEN Unwrap(update.attempts) ELSE @,
        !.next_attempt_at = IF IsSome(update.next_attempt_at)
                            THEN Unwrap(update.next_attempt_at) ELSE @,
        !.last_error = IF IsSome(update.last_error)
                       THEN Some(Unwrap(update.last_error)) ELSE @,
        !.http_status = IF IsSome(update.http_status)
                        THEN Some(Unwrap(update.http_status)) ELSE @,
        !.central_response_json =
            IF IsSome(update.central_response_json)
            THEN Some(Unwrap(update.central_response_json)) ELSE @,
        !.updated_at = t]

\* update_job_state accepting a key that is not stored
update_job_state_lenient(d, k, cid, update, t, at) ==
    LET got == get_booking_job(d, cid, at)
        job == PatchedJob(Unwrap(got.val), update, t)
        d0  == remove_job_index(d, job)
        d1  == [d0 EXCEPT !.booking_jobs =
                   TreeInsert(@, RecKey(cid), Serialize(job))]
        d2  == update_job_index(d1, job)
    IN  IF ~got.ok THEN StoreRes(d, k, FALSE)
        ELSE IF ~IsSome(got.val) THEN StoreRes(d, k, TRUE)
        ELSE IF at = "insert" THEN StoreRes(d, k, FALSE)
        ELSE IF at = "index" /\ job.state = "Queued" THEN StoreRes(d1, k, FALSE)
        ELSE IF at = "flush" THEN StoreRes(d2, k, FALSE)
        ELSE StoreRes(d2, d2, TRUE)

update_job_state(d, k, cid, update, t, at) ==
    LET got == get_booking_job(d, cid, at)
        job == PatchedJob(Unwrap(got.val), update, t)
        d0  == remove_job_index(d, job)
        d1  == [d0 EXCEPT !.booking_jobs =
                   TreeInsert(@, RecKey(cid), Serialize(job))]
        d2  == update_job_index(d1, job)
    IN  IF ~got.ok THEN StoreRes(d, k, FALSE)
        ELSE IF ~IsSome(got.val) THEN StoreRes(d, k, FALSE)
        ELSE IF at = "insert" THEN StoreRes(d, k, FALSE)
        ELSE IF at = "index" /\ job.state = "Queued" THEN StoreRes(d1, k, FALSE)
        ELSE IF at = "flush" THEN StoreRes(d2, k, FALSE)
        ELSE StoreRes(d2, d2, TRUE)

\* the error update_job_state returns when no sled call fails: None for Ok
update_job_state_error(d, cid) ==
    IF IsSome(get_booking_job(d, cid, "none").val) THEN None
    ELSE Some(<<"Job not found: ", cid>>)

\* the collected vector left in the order of the scan
SortByNextAttempt_unsorted(recs) == recs

\* Vec::sort_by_key(|j| j.next_attempt_at): a stable sort
RECURSIVE InsertSorted(_, _)
InsertSorted(sorted, rec) ==
    IF sorted = <<>> THEN <<rec>>
    ELSE IF rec.next_attempt_at < Head(sorted).next_attempt_at
         THEN <<rec>> \o sorted
         ELSE <<Head(sorted)>> \o InsertSorted(Tail(sorted), rec)

RECURSIVE SortByNextAttempt(_)
SortByNextAttempt(recs) ==
    IF recs = <<>> THEN <<>>
    ELSE InsertSorted(SortByNextAttempt(SubSeq(recs, 1, Len(recs) - 1)),
                      recs[Len(recs)])

\* ScanDue without the test of the record's state
RECURSIVE ScanDue_any_state(_, _, _, _, _, _)
ScanDue_any_state(tree, keys, acc, limit, t, pending) ==
    IF keys = <<>> THEN [ok |-> TRUE, val |-> acc]
    ELSE LET key == Head(keys)
             r   == Deserialize(tree[key])
         IN  IF KeyLen(key) > IndexSkipLen
             THEN ScanDue_any_state(tree, Tail(keys), acc, limit, t, pending)
             ELSE IF ~r.ok THEN [ok |-> FALSE]
             ELSE IF r.val.next_attempt_at <= t /\ Len(acc) < limit
                  THEN ScanDue_any_state(tree, Tail(keys), Append(acc, r.val),
                                         limit, t, pending)
                  ELSE ScanDue_any_state(tree, Tail(keys), acc, limit, t,
                                         pending)

\* the loop of get_due_jobs / get_due_notifications over the entries of a
\* tree in key order: acc is the vector collected so far; pending is the
\* state a due record has ("Queued" or "Pending")
RECURSIVE ScanDue(_, _, _, _, _, _)
ScanDue(tree, keys, acc, limit, t, pending) ==
    IF keys = <<>> THEN [ok |-> TRUE, val |-> acc]
    ELSE LET key == Head(keys)
             r   == Deserialize(tree[key])
         IN  IF KeyLen(key) > IndexSkipLen
             THEN ScanDue(tree, Tail(keys), acc, limit, t, pending)
             ELSE IF ~r.ok THEN [ok |-> FALSE]
             ELSE IF /\ r.val.state = pending
                     /\ r.val.next_attempt_at <= t
                     /\ Len(acc) < limit
                  THEN ScanDue(tree, Tail(keys), Append(acc, r.val), limit,
                               t, pending)
                  ELSE ScanDue(tree, Tail(keys), acc, limit, t, pending)

get_due_jobs(d, limit, t, at) ==
    LET r == ScanDue(d.booking_jobs, KeysInOrder(DOMAIN d.booking_jobs),
                     <<>>, limit, t, "Queued")
    IN  IF at = "iter" /\ DOMAIN d.booking_jobs # {} THEN [ok |-> FALSE]
        ELSE IF ~r.ok THEN [ok |-> FALSE]
        ELSE [ok |-> TRUE, val |-> SortByNextAttempt(r.val)]

\* get_due_notifications returning the due records of every state
get_due_notifications_any_state(d, limit, t, at) ==
    LET r == ScanDue_any_state(d.notification_outbox,
                               KeysInOrder(DOMAIN d.notification_outbox),
                               <<>>, limit, t, "Pending")
    IN  IF at = "iter" /\ DOMAIN d.notification_outbox # {} THEN [ok |-> FALSE]
        ELSE IF ~r.ok THEN [ok |-> FALSE]
        ELSE [ok |-> TRUE, val |-> SortByNextAttempt(r.val)]

get_due_notifications(d, limit, t, at) ==
    LET r == ScanDue(d.notification_outbox,
                     KeysInOrder(DOMAIN d.notification_outbox),
                     <<>>, limit, t, "Pending")
    IN  IF at = "iter" /\ DOMAIN d.notification_outbox # {} THEN [ok |-> FALSE]
        ELSE IF ~r.ok THEN [ok |-> FALSE]
        ELSE [ok |-> TRUE, val |-> SortByNextAttempt(r.val)]

\* persist_notification without the test for an existing record
persist_notification_overwrite(d, k, notif, at) ==
    LET key == RecKey(notif.correlation_id)
        d1  == [d EXCEPT !.notification_outbox =
                   TreeInsert(@, key, Serialize(notif))]
        d2  == update_notification_index(d1, notif)
    IN  IF at = "contains" THEN StoreRes(d, k, FALSE)
        ELSE IF at = "insert" THEN StoreRes(d, k, FALSE)
        ELSE IF at = "index" /\ notif.state = "Pending"
             THEN StoreRes(d1, k, FALSE)
        ELSE IF at = "flush" THEN StoreRes(d2, k, FALSE)
        ELSE StoreRes(d2, d2, TRUE)

persist_notification(d, k, notif, at) ==
    LET key == RecKey(notif.correlation_id)
        d1  == [d EXCEPT !.notification_outbox =
                   TreeInsert(@, key, Serialize(notif))]
        d2  == update_notification_index(d1, notif)
    IN  IF at = "contains" THEN StoreRes(d, k, FALSE)
        ELSE IF key \in DOMAIN d.notification_outbox THEN StoreRes(d, k, TRUE)
        ELSE IF at = "insert" THEN StoreRes(d, k, FALSE)
        ELSE IF at = "index" /\ notif.state = "Pending"
             THEN StoreRes(d1, k, FALSE)
        ELSE IF at = "flush" THEN StoreRes(d2, k, FALSE)
        ELSE StoreRes(d2, d2, TRUE)

update_notification_state(d, k, cid, state, simulated_sent_at, subject, body, t, at) ==
    LET got   == get_notification(d, cid, at)
        old   == Unwrap(got.val)
        notif == [old EXCEPT
                    !.state = state,
                    !.simulated_sent_at =
                        IF IsSome(simulated_sent_at)
                        THEN Some(Unwrap(simulated_sent_at)) ELSE @,
                    !.subject = IF IsSome(subject) THEN Unwrap(subject) ELSE @,
                    !.body = IF IsSome(body) THEN Unwrap(body) ELSE @,
                    !.updated_at = t]
        d0    == remove_notification_index(d, notif)
        d1    == [d0 EXCEPT !.notification_outbox =
                     TreeInsert(@, RecKey(cid), Serialize(notif))]
        d2    == update_notification_index(d1, notif)
    IN  IF ~got.ok THEN StoreRes(d, k, FALSE)
        ELSE IF ~IsSome(got.val) THEN StoreRes(d, k, FALSE)
        ELSE IF at = "insert" THEN StoreRes(d, k, FALSE)
        ELSE IF at = "index" /\ notif.state = "Pending"
             THEN StoreRes(d1, k, FALSE)
        ELSE IF at = "flush" THEN StoreRes(d2, k, FALSE)
        ELSE StoreRes(d2, d2, TRUE)

\* the error update_notification_state returns when no sled call fails
update_notification_state_error(d, cid) ==
    IF IsSome(get_notification(d, cid, "none").val) THEN None
    ELSE Some(<<"Notification not found: ", cid>>)

(***************************************************************************)
(* BrokerHandler::handle_submit_booking.  t is chrono::Utc::now().         *)
(***************************************************************************)
AckStatus(state) ==
    CASE state = "Confirmed" -> "confirmed"
      [] state = "Failed" -> "failed"
      [] OTHER -> "queued"

\* NewBookingJob with the first attempt scheduled one backoff later
NewBookingJob_delayed(cid, booking, notify, t) ==
    [correlation_id |-> cid,
     booking_json |-> ToJsonString(booking),
     notify_json |-> ToJsonString(notify),
     state |-> "Queued",
     attempts |-> 0,
     next_attempt_at |-> t + InitialBackoffMs,
     last_error |-> None,
     http_status |-> None,
     central_response_json |-> None,
     created_at |-> t,
     updated_at |-> t]

NewBookingJob(cid, booking, notify, t) ==
    [correlation_id |-> cid,
     booking_json |-> ToJsonString(booking),
     notify_json |-> ToJsonString(notify),
     state |-> "Queued",
     attempts |-> 0,
     next_attempt_at |-> t,
     last_error |-> None,
     http_status |-> None,
     central_response_json |-> None,
     created_at |-> t,
     updated_at |-> t]

\* handle_submit_booking without the lookup: it relies on the insert's own
\* existence check and acknowledges "queued"
handle_submit_booking_nocheck(d, k, cid, booking, notify, t, fault) ==
    LET job == NewBookingJob(cid, booking, notify, t)
        r   == persist_booking_job(d, k, job, FaultAt(fault, 2))
    IN  IF ~r.ok
        THEN [db |-> r.db, disk |-> r.disk, ok |-> FALSE, status |-> "error"]
        ELSE [db |-> r.db, disk |-> r.disk, ok |-> TRUE, status |-> "queued"]

\* handle_submit_booking as an upsert: the submitted job replaces the stored
\* one, the reply is still derived from the state found
handle_submit_booking_upsert(d, k, cid, booking, notify, t, fault) ==
    LET got == get_booking_job(d, cid, FaultAt(fault, 1))
        job == NewBookingJob(cid, booking, notify, t)
        r   == persist_booking_job_overwrite(d, k, job, FaultAt(fault, 2))
    IN  IF ~got.ok THEN [db |-> d, disk |-> k, ok |-> FALSE, status |-> "error"]
        ELSE IF ~r.ok
        THEN [db |-> r.db, disk |-> r.disk, ok |-> FALSE, status |-> "error"]
        ELSE [db |-> r.db, disk |-> r.disk, ok |-> TRUE,
              status |-> IF IsSome(got.val)
                         THEN AckStatus(Unwrap(got.val).state) ELSE "queued"]

\* Ok(Msg::BookingAck{status}) is [ok |-> TRUE, status |-> ...]; Err is
\* [ok |-> FALSE]; db and disk are the store the call leaves behind
handle_submit_booking(d, k, cid, booking, notify, t, fault) ==
    LET got == get_booking_job(d, cid, FaultAt(fault, 1))
        job == NewBookingJob(cid, booking, notify, t)
        r   == persist_booking_job(d, k, job, FaultAt(fault, 2))
    IN  IF ~got.ok THEN [db |-> d, disk |-> k, ok |-> FALSE, status |-> "error"]
        ELSE IF IsSome(got.val)
        THEN [db |-> d, disk |-> k, ok |-> TRUE,
              status |-> AckStatus(Unwrap(got.val).state)]
        ELSE IF ~r.ok
        THEN [db |-> r.db, disk |-> r.disk, ok |-> FALSE, status |-> "error"]
        ELSE [db |-> r.db, disk |-> r.disk, ok |-> TRUE, status |-> "queued"]

(***************************************************************************)
(* The SubmitBooking branch of the swarm loop.  role is config.role,       *)
(* broker_handler the Option the loop was started with; sent is the        *)
(* sequence of messages handed to send_response for the request.           *)
(***************************************************************************)
Roles == {"Client", "Gateway"}

BookingAck(cid, status) == [correlation_id |-> cid, status |-> status]

on_submit_booking_any_role(role, broker_handler, d, k, cid, booking, notify, t, fault) ==
    LET r == handle_submit_booking(d, k, cid, booking, notify, t, fault)
    IN  IF broker_handler # None
        THEN IF r.ok
             THEN [db |-> r.db, disk |-> r.disk,
                   sent |-> <<BookingAck(cid, r.status)>>]
             ELSE [db |-> r.db, disk |-> r.disk,
                   sent |-> <<BookingAck(cid, "error")>>]
        ELSE [db |-> d, disk |-> k, sent |-> <<BookingAck(cid, "error")>>]

on_submit_booking(role, broker_handler, d, k, cid, booking, notify, t, fault) ==
    LET r == handle_submit_booking(d, k, cid, booking, notify, t, fault)
    IN  IF role = "Gateway"
        THEN IF broker_handler # None
             THEN IF r.ok
                  THEN [db |-> r.db, disk |-> r.disk,
                        sent |-> <<BookingAck(cid, r.status)>>]
                  ELSE [db |-> r.db, disk |-> r.disk,
                        sent |-> <<BookingAck(cid, "error")>>]
             ELSE [db |-> d, disk |-> k, sent |-> <<BookingAck(cid, "error")>>]
        ELSE [db |-> d, disk |-> k, sent |-> <<BookingAck(cid, "error")>>]

(***************************************************************************)
(* ForwarderWorker.                                                        *)
(***************************************************************************)
Min(a, b) == IF a <= b THEN a ELSE b

RECURSIVE Pow2(_)
Pow2(e) == IF e = 0 THEN 1 ELSE 2 * Pow2(e - 1)

\* the product wrapping around at the word size instead of saturating
\* (b is a power of two)
RECURSIVE saturating_mul_wrapping(_, _)
saturating_mul_wrapping(a, b) ==
    IF b <= 1 THEN a * b
    ELSE saturating_mul_wrapping(2 * (a % 1073741824), b \div 2)

\* u64::saturating_mul.  The model's integers are 32 bits wide, so the
\* ceiling u64::MAX is scaled to UMax, the largest of them.
UMax == 2147483647
saturating_mul(a, b) ==
    IF b # 0 /\ a > UMax \div b THEN UMax ELSE a * b

\* calculate_backoff with the value rng.gen_range(0..=JITTER_MS) drew
calculate_backoff(initial_backoff_ms, attempts, jitter) ==
    LET base_delay == saturating_mul(initial_backoff_ms,
                                     Pow2(Min(attempts, MaxExponent)))
        delay      == Min(base_delay, MAX_BACKOFF_MS)
    IN  delay + jitter

\* handle_retry scheduling the next attempt at once, without the backoff
handle_retry_immediate(d, k, cid, current_attempts, error, t, jitter, at) ==
    LET new_attempts == current_attempts + 1
    IN  IF new_attempts > MaxRetryAttempts
        THEN update_job_state(d, k, cid,
                 JobStateUpdate("Failed", Some(new_attempts), None,
                                Some(<<"Max retries exceeded: ", error>>),
                                None, None), t, at)
        ELSE update_job_state(d, k, cid,
                 JobStateUpdate("Queued", Some(new_attempts),
                                Some(t), Some(<<error>>),
                                None, None), t, at)

\* handle_retry giving up one attempt early (>= for >)
handle_retry_early(d, k, cid, current_attempts, error, t, jitter, at) ==
    LET new_attempts == current_attempts + 1
        backoff_delay == calculate_backoff(InitialBackoffMs, new_attempts,
                                           jitter)
        next_attempt_at == t + backoff_delay
    IN  IF new_attempts >= MaxRetryAttempts
        THEN update_job_state(d, k, cid,
                 JobStateUpdate("Failed", Some(new_attempts), None,
                                Some(<<"Max retries exceeded: ", error>>),
                                None, None), t, at)
        ELSE update_job_state(d, k, cid,
                 JobStateUpdate("Queued", Some(new_attempts),
                                Some(next_attempt_at), Some(<<error>>),
                                None, None), t, at)

handle_retry(d, k, cid, current_attempts, error, t, jitter, at) ==
    LET new_attempts == current_attempts + 1
        backoff_delay == calculate_backoff(InitialBackoffMs, new_attempts,
                                           jitter)
        next_attempt_at == t + backoff_delay
    IN  IF new_attempts > MaxRetryAttempts
        THEN update_job_state(d, k, cid,
                 JobStateUpdate("Failed", Some(new_attempts), None,
                                Some(<<"Max retries exceeded: ", error>>),
                                None, None), t, at)
        ELSE update_job_state(d, k, cid,
                 JobStateUpdate("Queued", Some(new_attempts),
                                Some(next_attempt_at), Some(<<error>>),
                                None, None), t, at)

create_notification(d, k, cid, notify_json, t, at) ==
    LET notify == FromJsonStr(notify_json)
        notif  == [correlation_id |-> cid,
                   email_to |-> notify.val.email,
                   state |-> "Pending",
                   attempts |-> 0,
                   next_attempt_at |-> t,
                   last_error |-> None,
                   subject |-> <<>>,
                   body |-> <<>>,
                   simulated_sent_at |-> None,
                   created_at |-> t,
                   updated_at |-> t]
    IN  IF ~notify.ok THEN StoreRes(d, k, FALSE)
        ELSE IF "email" \notin DOMAIN notify.val THEN StoreRes(d, k, FALSE)
        ELSE persist_notification(d, k, notif, at)

\* the u16 status code as format! prints it
StatusString(status) ==
    Digit((status \div 100) % 10) \o Digit((status \div 10) % 10)
        \o Digit(status % 10)

\* StatusCode::is_success
is_success(status) == 200 <= status /\ status <= 299

\* what the HTTP call of process_job can end in
HttpOutcomes ==
    { [kind |-> "response", status |-> 200, body |-> "{\"id\":\"b-42\"}"],
      [kind |-> "response", status |-> 422,
       body |-> "{\"error\":\"bad date\"}"],
      [kind |-> "network_error", error |-> "error sending request"],
      [kind |-> "body_error", error |-> "error decoding response body"] }

JitterChoices == {0, JITTER_MS}

\* process_job sending the request without the write of Sending
process_job_begin_no_lease(d, k, job, t, at) ==
    [db |-> d, disk |-> k, sent |-> FromJsonStr(job.booking_json).ok]

\* process_job starting the count of attempts again with each attempt
process_job_begin_reset(d, k, job, t, at) ==
    LET r == update_job_state(d, k, job.correlation_id,
                 JobStateUpdate("Sending", Some(0), None, None, None, None),
                 t, at)
    IN  [db |-> r.db, disk |-> r.disk,
         sent |-> r.ok /\ FromJsonStr(job.booking_json).ok]

\* process_job up to the HTTP call: the write of Sending, then the parse of
\* the stored booking payload.  sent says whether the request was sent.
process_job_begin(d, k, job, t, at) ==
    LET r == update_job_state(d, k, job.correlation_id,
                 JobStateUpdate("Sending", None, None, None, None, None),
                 t, at)
    IN  [db |-> r.db, disk |-> r.disk,
         sent |-> r.ok /\ FromJsonStr(job.booking_json).ok]

\* process_job creating the notification before the write of Confirmed
process_job_end_notify_first(d, k, job, outcome, t, jitter, fault) ==
    LET cid == job.correlation_id IN
    IF outcome.kind = "response"
    THEN IF is_success(outcome.status)
         THEN LET n == create_notification(d, k, cid, job.notify_json, t,
                                           FaultAt(fault, 2))
              IN  IF ~n.ok THEN n
                  ELSE update_job_state(n.db, n.disk, cid,
                           JobStateUpdate("Confirmed", None, None, None,
                                          Some(outcome.status),
                                          Some(outcome.body)),
                           t, FaultAt(fault, 1))
         ELSE update_job_state(d, k, cid,
                  JobStateUpdate("Failed", None, None,
                                 Some(<<"HTTP ", StatusString(outcome.status),
                                        ": ", outcome.body>>),
                                 Some(outcome.status), Some(outcome.body)),
                  t, FaultAt(fault, 1))
    ELSE handle_retry(d, k, cid, job.attempts, outcome.error, t, jitter,
                      FaultAt(fault, 1))

\* process_job recording the status of a 2xx answer without its body
process_job_end_status_only(d, k, job, outcome, t, jitter, fault) ==
    LET cid == job.correlation_id IN
    IF outcome.kind = "response"
    THEN IF is_success(outcome.status)
         THEN LET r == update_job_state(d, k, cid,
                           JobStateUpdate("Confirmed", None, None, None,
                                          Some(outcome.status), None),
                           t, FaultAt(fault, 1))
              IN  IF ~r.ok THEN r
                  ELSE create_notification(r.db, r.disk, cid, job.notify_json,
                                           t, FaultAt(fault, 2))
         ELSE update_job_state(d, k, cid,
                  JobStateUpdate("Failed", None, None,
                                 Some(<<"HTTP ", StatusString(outcome.status),
                                        ": ", outcome.body>>),
                                 Some(outcome.status), Some(outcome.body)),
                  t, FaultAt(fault, 1))
    ELSE handle_retry(d, k, cid, job.attempts, outcome.error, t, jitter,
                      FaultAt(fault, 1))

\* process_job taking an answer outside 2xx for a transient failure
process_job_end_retry_http(d, k, job, outcome, t, jitter, fault) ==
    LET cid == job.correlation_id IN
    IF outcome.kind = "response"
    THEN IF is_success(outcome.status)
         THEN LET r == update_job_state(d, k, cid,
                           JobStateUpdate("Confirmed", None, None, None,
                                          Some(outcome.status),
                                          Some(outcome.body)),
                           t, FaultAt(fault, 1))
              IN  IF ~r.ok THEN r
                  ELSE create_notification(r.db, r.disk, cid, job.notify_json,
                                           t, FaultAt(fault, 2))
         ELSE handle_retry(d, k, cid, job.attempts, outcome.body, t, jitter,
                           FaultAt(fault, 1))
    ELSE handle_retry(d, k, cid, job.attempts, outcome.error, t, jitter,
                      FaultAt(fault, 1))

\* process_job counting an answered call as an attempt too
process_job_end_counting(d, k, job, outcome, t, jitter, fault) ==
    LET cid == job.correlation_id IN
    IF outcome.kind = "response"
    THEN IF is_success(outcome.status)
         THEN LET r == update_job_state(d, k, cid,
                           JobStateUpdate("Confirmed", Some(job.attempts + 1),
                                          None, None, Some(outcome.status),
                                          Some(outcome.body)),
                           t, FaultAt(fault, 1))
              IN  IF ~r.ok THEN r
                  ELSE create_notification(r.db, r.disk, cid, job.notify_json,
                                           t, FaultAt(fault, 2))
         ELSE update_job_state(d, k, cid,
                  JobStateUpdate("Failed", Some(job.attempts + 1), None,
                                 Some(<<"HTTP ", StatusString(outcome.status),
                                        ": ", outcome.body>>),
                                 Some(outcome.status), Some(outcome.body)),
                  t, FaultAt(fault, 1))
    ELSE handle_retry(d, k, cid, job.attempts, outcome.error, t, jitter,
                      FaultAt(fault, 1))

\* process_job from the end of the HTTP call on
process_job_end(d, k, job, outcome, t, jitter, fault) ==
    LET cid == job.correlation_id IN
    IF outcome.kind = "response"
    THEN IF is_success(outcome.status)
         THEN LET r == update_job_state(d, k, cid,
                           JobStateUpdate("Confirmed", None, None, None,
                                          Some(outcome.status),
                                          Some(outcome.body)),
                           t, FaultAt(fault, 1))
              IN  IF ~r.ok THEN r
                  ELSE create_notification(r.db, r.disk, cid, job.notify_json,
                                           t, FaultAt(fault, 2))
         ELSE update_job_state(d, k, cid,
                  JobStateUpdate("Failed", None, None,
                                 Some(<<"HTTP ", StatusString(outcome.status),
                                        ": ", outcome.body>>),
                                 Some(outcome.status), Some(outcome.body)),
                  t, FaultAt(fault, 1))
    ELSE handle_retry(d, k, cid, job.attempts, outcome.error, t, jitter,
                      FaultAt(fault, 1))

(***************************************************************************)
(* NotifierWorker.                                                         *)
(***************************************************************************)
Field(booking, name) ==
    IF name \in DOMAIN booking THEN booking[name] ELSE "Unknown"

build_email(job) ==
    LET parsed  == FromJsonStr(job.booking_json)
        booking == parsed.val
        name    == Field(booking, "name")
        response_info ==
            IF IsSome(job.central_response_json)
            THEN <<"Response: ", Unwrap(job.central_response_json)>>
            ELSE <<"Booking confirmed">>
    IN  IF ~parsed.ok THEN [ok |-> FALSE]
        ELSE [ok |-> TRUE,
              subject |-> <<"Booking Confirmed - ", name>>,
              body |-> <<"Hello ", name, "Date: ", Field(booking, "date"),
                         "Time: ", Field(booking, "start_time"), " - ",
                         Field(booking, "end_time"), "Name: ", name>>
                       \o response_info \o <<"Thank you!">>]

process_notification_unchecked(d, k, notif, t, fault) ==
    LET cid   == notif.correlation_id
        got   == get_booking_job(d, cid, FaultAt(fault, 1))
        job   == Unwrap(got.val)
        email == build_email(job)
        r     == update_notification_state(d, k, cid, "SimulatedSent",
                     Some(t), Some(email.subject), Some(email.body), t,
                     FaultAt(fault, 2))
    IN  IF ~got.ok \/ ~IsSome(got.val)
        THEN [db |-> d, disk |-> k, ok |-> FALSE, emitted |-> FALSE]
        ELSE IF ~email.ok
        THEN [db |-> d, disk |-> k, ok |-> FALSE, emitted |-> FALSE]
        ELSE [db |-> r.db, disk |-> r.disk, ok |-> r.ok, emitted |-> TRUE]

\* emitted says whether the SIMULATED_EMAIL line was written to the sink
process_notification(d, k, notif, t, fault) ==
    LET cid   == notif.correlation_id
        got   == get_booking_job(d, cid, FaultAt(fault, 1))
        job   == Unwrap(got.val)
        email == build_email(job)
        r     == update_notification_state(d, k, cid, "SimulatedSent",
                     Some(t), Some(email.subject), Some(email.body), t,
                     FaultAt(fault, 2))
    IN  IF ~got.ok \/ ~IsSome(got.val)
        THEN [db |-> d, disk |-> k, ok |-> FALSE, emitted |-> FALSE]
        ELSE IF job.state # "Confirmed"
        THEN [db |-> d, disk |-> k, ok |-> TRUE, emitted |-> FALSE]
        ELSE IF ~email.ok
        THEN [db |-> d, disk |-> k, ok |-> FALSE, emitted |-> FALSE]
        ELSE [db |-> r.db, disk |-> r.disk, ok |-> r.ok, emitted |-> TRUE]

(***************************************************************************)
(* A whole tick of a worker. process_due_jobs scans once and then runs     *)
(* process_job on each job of the batch in turn; process_job is the        *)
(* Sending write, the HTTP call and the write of its outcome. A TickPlan   *)
(* says what the environment does during the tick: whether the scan fails  *)
(* (scan_at), what the Central API answers (outcome) and which item meets  *)
(* a storage error (fail_item, 0 for none) at which operation (fault: for  *)
(* a job, 1 is the Sending write, 2 the write of the outcome, 3 the        *)
(* insert of the notification; for a notification, 1 is the lookup of the  *)
(* job and 2 the write of SimulatedSent).                                  *)
(***************************************************************************)
ItemFault(plan, i) == IF plan.fail_item = i THEN plan.fault ELSE NoFault

process_job(d, k, job, outcome, t, jitter, fault) ==
    LET b == process_job_begin(d, k, job, t, FaultAt(fault, 1))
        e == process_job_end(b.db, b.disk, job, outcome, t, jitter,
                             [op |-> fault.op - 1, at |-> fault.at])
    IN  IF ~b.sent
        THEN [db |-> b.db, disk |-> b.disk, ok |-> FALSE, called |-> FALSE]
        ELSE [db |-> e.db, disk |-> e.disk, ok |-> e.ok, called |-> TRUE]

\* the result of the loop from an item on, given what process_job (or
\* process_notification) returned for the item and what the loop did
\* with the items after it
ItemThenRest(cid, ok, called, rest) ==
    [db |-> rest.db, disk |-> rest.disk,
     processed |-> <<cid>> \o rest.processed,
     called |-> (IF called THEN <<cid>> ELSE <<>>) \o rest.called,
     failed |-> (IF ok THEN <<>> ELSE <<cid>>) \o rest.failed]

NoItems(d, k) ==
    [db |-> d, disk |-> k, processed |-> <<>>, called |-> <<>>,
     failed |-> <<>>]

\* the result of a tick whose scan returned batch
TickOk(batch, r) ==
    [db |-> r.db, disk |-> r.disk, ok |-> TRUE,
     batch |-> [i \in 1..Len(batch) |-> batch[i].correlation_id],
     processed |-> r.processed, called |-> r.called, failed |-> r.failed]

TickErr(d, k) ==
    [db |-> d, disk |-> k, ok |-> FALSE, batch |-> <<>>,
     processed |-> <<>>, called |-> <<>>, failed |-> <<>>]

RECURSIVE process_jobs_aborting(_, _, _, _, _, _)
process_jobs_aborting(d, k, jobs, i, t, plan) ==
    IF i > Len(jobs) THEN NoItems(d, k)
    ELSE CHOOSE out \in UNION {
             {ItemThenRest(jobs[i].correlation_id, r.ok, r.called, rest) :
                 rest \in {IF r.ok
                           THEN process_jobs_aborting(r.db, r.disk, jobs,
                                                      i + 1, t, plan)
                           ELSE NoItems(r.db, r.disk)}} :
             r \in {process_job(d, k, jobs[i], plan.outcome, t, plan.jitter,
                                ItemFault(plan, i))}} : TRUE

\* the for loop of process_due_jobs from item i on: an Err of process_job
\* is logged and the loop goes on.  processed lists the jobs handed to
\* process_job, called those an HTTP call was made for, failed those whose
\* process_job returned Err.  (r is what process_job returned for item i,
\* rest what the loop did after it; each is computed once.)
RECURSIVE process_jobs(_, _, _, _, _, _)
process_jobs(d, k, jobs, i, t, plan) ==
    IF i > Len(jobs) THEN NoItems(d, k)
    ELSE CHOOSE out \in UNION {
             {ItemThenRest(jobs[i].correlation_id, r.ok, r.called, rest) :
                 rest \in {process_jobs(r.db, r.disk, jobs, i + 1, t, plan)}} :
             r \in {process_job(d, k, jobs[i], plan.outcome, t, plan.jitter,
                                ItemFault(plan, i))}} : TRUE

process_due_jobs(d, k, t, plan) ==
    LET scan == get_due_jobs(d, BatchLimit, t, plan.scan_at)
    IN  IF ~scan.ok THEN TickErr(d, k)
        ELSE CHOOSE out \in
                 {TickOk(jobs, r) :
                     jobs \in {scan.val},
                     r \in {process_jobs(d, k, scan.val, 1, t, plan)}} : TRUE

\* the for loop of process_due_notifications from item i on; called lists
\* the notifications whose SIMULATED_EMAIL line was written
RECURSIVE process_notifications(_, _, _, _, _, _)
process_notifications(d, k, notifs, i, t, plan) ==
    IF i > Len(notifs) THEN NoItems(d, k)
    ELSE CHOOSE out \in UNION {
             {ItemThenRest(notifs[i].correlation_id, r.ok, r.emitted, rest) :
                 rest \in {process_notifications(r.db, r.disk, notifs, i + 1,
                                                 t, plan)}} :
             r \in {process_notification(d, k, notifs[i], t,
                                         ItemFault(plan, i))}} : TRUE

process_due_notifications(d, k, t, plan) ==
    LET scan == get_due_notifications(d, BatchLimit, t, plan.scan_at)
    IN  IF ~scan.ok THEN TickErr(d, k)
        ELSE CHOOSE out \in
                 {TickOk(notifs, r) :
                     notifs \in {scan.val},
                     r \in {process_notifications(d, k, scan.val, 1, t,
                                                  plan)}} : TRUE

\* the loop of run: whatever the tick returned, the worker sleeps and
\* ticks again
run(tick) == "running"

(***************************************************************************)
(* The state of the broker.                                                *)
(*   db        the two trees as the running process reads them             *)
(*   disk      the two trees as stable storage holds them                  *)
(*   now       chrono::Utc::now()                                          *)
(*   fw_batch  per Forwarder, the jobs of the scanned batch still to do    *)
(*   fw_job    per Forwarder, the job whose HTTP call is in flight         *)
(*   nt_batch  the notifications of the scanned batch still to do          *)
(*   request   the SubmitBooking message last received                     *)
(*   reply     the BookingAck last sent to a client                        *)
(*   backoff   an evaluation of calculate_backoff on its own: the inputs   *)
(*             and, once computed, the delay (BackoffSpec)                 *)
(* and, observing the run: the number of submissions, storage errors and   *)
(* crashes so far, the HTTP calls made and network errors seen per job,    *)
(* the emissions to the notification sink per job, the ids whose job was   *)
(* written as Confirmed at some time, and the HTTP call last completed     *)
(* (http_last: the job it was made for and what it ended in).              *)
(*   api       a call of one storage operation on its own: the store it    *)
(*             is made on, its arguments and, once made, what it returned  *)
(*             (StorageSpec)                                               *)
(***************************************************************************)
VARIABLES db, disk, now, fw_batch, fw_job, nt_batch, request, reply,
          nsubmits, faults, crashes, http_calls, net_errs, sink,
          ever_confirmed, http_last, backoff, api

vars == <<db, disk, now, fw_batch, fw_job, nt_batch, request, reply,
          nsubmits, faults, crashes, http_calls, net_errs, sink,
          ever_confirmed, http_last, backoff, api>>

ForwarderIds == {1, 2}
SingleForwarder == {1}

InitBroker ==
    /\ db = EmptyDb
    /\ disk = EmptyDb
    /\ now = 0
    /\ fw_batch = [f \in ForwarderIds |-> <<>>]
    /\ fw_job = [f \in ForwarderIds |-> None]
    /\ nt_batch = <<>>
    /\ request = None
    /\ reply = None
    /\ nsubmits = 0
    /\ faults = 0
    /\ crashes = 0
    /\ http_calls = [c \in Cids |-> 0]
    /\ net_errs = [c \in Cids |-> 0]
    /\ sink = [c \in Cids |-> 0]
    /\ ever_confirmed = {}
    /\ http_last = None

Init == InitBroker /\ backoff = None /\ api = None

\* a storage error is drawn only while the budget lasts
FaultAllowed(fault) == fault = NoFault \/ faults < MaxFaults
CountFault(fault) == IF fault = NoFault THEN faults ELSE faults + 1

\* the stored job of an id in a store, as an Option
JobIn(d, cid) ==
    IF RecKey(cid) \in DOMAIN d.booking_jobs
    THEN d.booking_jobs[RecKey(cid)] ELSE None
NotifIn(d, cid) ==
    IF RecKey(cid) \in DOMAIN d.notification_outbox
    THEN d.notification_outbox[RecKey(cid)] ELSE None
Confirmations(d) ==
    {c \in Cids : IsSome(JobIn(d, c)) /\ Unwrap(JobIn(d, c)).state = "Confirmed"}

(***************************************************************************)
(* The swarm loop receives SubmitBooking and answers with the handler's    *)
(* ACK, or with status "error" when the handler returned Err.              *)
(***************************************************************************)
Submit(cid, payload, fault) ==
    /\ nsubmits < MaxSubmits
    /\ FaultAllowed(fault)
    /\ LET r == handle_submit_booking(db, disk, cid, payload.booking,
                                      payload.notify, now, fault)
       IN  /\ db' = r.db
           /\ disk' = r.disk
           /\ request' = Some([correlation_id |-> cid,
                               booking |-> payload.booking,
                               notify |-> payload.notify])
           /\ reply' = Some([correlation_id |-> cid,
                             status |-> IF r.ok THEN r.status ELSE "error"])
    /\ nsubmits' = nsubmits + 1
    /\ faults' = CountFault(fault)
    /\ UNCHANGED <<now, fw_batch, fw_job, nt_batch, crashes, http_calls,
                   net_errs, sink, ever_confirmed, http_last, backoff, api>>

(***************************************************************************)
(* One Forwarder tick: process_due_jobs scans, then process_job runs for   *)
(* each job of the batch; the HTTP call is awaited, so other tasks run     *)
(* while it is in flight.                                                  *)
(***************************************************************************)
ForwarderScan(f, fault) ==
    /\ fw_batch[f] = <<>> /\ fw_job[f] = None
    /\ FaultAllowed(fault)
    /\ LET r == get_due_jobs(db, BatchLimit, now, FaultAt(fault, 1))
       IN  /\ r.ok
           /\ r.val # <<>>
           /\ fw_batch' = [fw_batch EXCEPT ![f] = r.val]
    /\ faults' = CountFault(fault)
    /\ UNCHANGED <<db, disk, now, fw_job, nt_batch, request, reply, nsubmits, crashes,
                   http_calls, net_errs, sink, ever_confirmed, http_last, backoff, api>>

ForwarderBegin(f, fault) ==
    /\ fw_batch[f] # <<>> /\ fw_job[f] = None
    /\ FaultAllowed(fault)
    /\ LET job == Head(fw_batch[f])
           r   == process_job_begin(db, disk, job, now, FaultAt(fault, 1))
       IN  /\ db' = r.db
           /\ disk' = r.disk
           /\ fw_job' = [fw_job EXCEPT ![f] = IF r.sent THEN Some(job) ELSE None]
           /\ http_calls' = [http_calls EXCEPT ![job.correlation_id] =
                                IF r.sent THEN @ + 1 ELSE @]
    /\ fw_batch' = [fw_batch EXCEPT ![f] = Tail(@)]
    /\ faults' = CountFault(fault)
    /\ UNCHANGED <<now, nt_batch, request, reply, nsubmits, crashes, net_errs, sink,
                   ever_confirmed, http_last, backoff, api>>

ForwarderEnd(f, outcome, jitter, fault) ==
    /\ fw_job[f] # None
    /\ FaultAllowed(fault)
    /\ LET job == Unwrap(fw_job[f])
           r   == process_job_end(db, disk, job, outcome, now, jitter, fault)
       IN  /\ db' = r.db
           /\ disk' = r.disk
           /\ net_errs' = [net_errs EXCEPT ![job.correlation_id] =
                              IF outcome.kind = "response" THEN @ ELSE @ + 1]
           /\ ever_confirmed' = ever_confirmed \cup Confirmations(r.db)
           /\ http_last' = Some([correlation_id |-> job.correlation_id,
                                 outcome |-> outcome])
    /\ fw_job' = [fw_job EXCEPT ![f] = None]
    /\ faults' = CountFault(fault)
    /\ UNCHANGED <<now, fw_batch, nt_batch, request, reply, nsubmits, crashes,
                   http_calls, sink, backoff, api>>

(***************************************************************************)
(* One Notifier tick: process_due_notifications scans, then                *)
(* process_notification runs for each notification of the batch.           *)
(***************************************************************************)
NotifierScan(fault) ==
    /\ nt_batch = <<>>
    /\ FaultAllowed(fault)
    /\ LET r == get_due_notifications(db, BatchLimit, now, FaultAt(fault, 1))
       IN  /\ r.ok
           /\ r.val # <<>>
           /\ nt_batch' = r.val
    /\ faults' = CountFault(fault)
    /\ UNCHANGED <<db, disk, now, fw_batch, fw_job, request, reply, nsubmits, crashes,
                   http_calls, net_errs, sink, ever_confirmed, http_last, backoff, api>>

NotifierStep(fault) ==
    /\ nt_batch # <<>>
    /\ FaultAllowed(fault)
    /\ LET notif == Head(nt_batch)
           r     == process_notification(db, disk, notif, now, fault)
       IN  /\ db' = r.db
           /\ disk' = r.disk
           /\ sink' = [sink EXCEPT ![notif.correlation_id] =
                          IF r.emitted THEN @ + 1 ELSE @]
    /\ nt_batch' = Tail(nt_batch)
    /\ faults' = CountFault(fault)
    /\ UNCHANGED <<now, fw_batch, fw_job, request, reply, nsubmits, crashes,
                   http_calls, net_errs, ever_confirmed, http_last, backoff, api>>

(***************************************************************************)
(* The environment: the clock, sled's background flush, and a crash of     *)
(* the process followed by a restart on the same db_path.                  *)
(***************************************************************************)
DueTimes ==
    {Unwrap(JobIn(db, c)).next_attempt_at : c \in {x \in Cids : IsSome(JobIn(db, x))}}

ClockAdvance(t) ==
    /\ t > now
    /\ \/ t = now + 1 /\ now < MaxNow
       \/ t \in DueTimes
    /\ now' = t
    /\ UNCHANGED <<db, disk, fw_batch, fw_job, nt_batch, request, reply, nsubmits,
                   faults, crashes, http_calls, net_errs, sink,
                   ever_confirmed, http_last, backoff, api>>

BackgroundFlush ==
    /\ disk # db
    /\ disk' = db
    /\ UNCHANGED <<db, now, fw_batch, fw_job, nt_batch, request, reply, nsubmits,
                   faults, crashes, http_calls, net_errs, sink,
                   ever_confirmed, http_last, backoff, api>>

\* a restart that puts the jobs it finds in Sending back to Queued
CrashRestart_requeue ==
    /\ crashes < MaxCrashes
    /\ db' = [disk EXCEPT !.booking_jobs =
                 [key \in DOMAIN @ |->
                     IF @[key] # EmptyBytes /\ @[key][1].state = "Sending"
                     THEN Serialize([@[key][1] EXCEPT !.state = "Queued"])
                     ELSE @[key]]]
    /\ fw_batch' = [f \in ForwarderIds |-> <<>>]
    /\ fw_job' = [f \in ForwarderIds |-> None]
    /\ nt_batch' = <<>>
    /\ crashes' = crashes + 1
    /\ UNCHANGED <<disk, now, request, reply, nsubmits, faults, http_calls, net_errs,
                   sink, ever_confirmed, http_last, backoff, api>>

CrashRestart ==
    /\ crashes < MaxCrashes
    /\ db' = disk
    /\ fw_batch' = [f \in ForwarderIds |-> <<>>]
    /\ fw_job' = [f \in ForwarderIds |-> None]
    /\ nt_batch' = <<>>
    /\ crashes' = crashes + 1
    /\ UNCHANGED <<disk, now, request, reply, nsubmits, faults, http_calls, net_errs,
                   sink, ever_confirmed, http_last, backoff, api>>

SubmitFaults == Faults({1}, {"get"}) \cup Faults({2}, {"contains", "insert", "index", "flush"})
ScanFaults == Faults({1}, {"iter"})
UpdateFaults == Faults({1}, {"get", "insert", "index", "flush"})
EndFaults == UpdateFaults \cup Faults({2}, {"contains", "insert", "index", "flush"})
NotifyFaults == Faults({1}, {"get"}) \cup Faults({2}, {"get", "insert", "flush"})

Next ==
    \/ \E cid \in Cids, payload \in Payloads, fault \in SubmitFaults :
           Submit(cid, payload, fault)
    \/ \E f \in SingleForwarder, fault \in ScanFaults : ForwarderScan(f, fault)
    \/ \E f \in SingleForwarder, fault \in UpdateFaults : ForwarderBegin(f, fault)
    \/ \E f \in SingleForwarder, outcome \in HttpOutcomes,
          jitter \in JitterChoices, fault \in EndFaults :
           ForwarderEnd(f, outcome, jitter, fault)
    \/ \E fault \in ScanFaults : NotifierScan(fault)
    \/ \E fault \in NotifyFaults : NotifierStep(fault)
    \/ \E t \in {now + 1} \cup DueTimes : ClockAdvance(t)
    \/ BackgroundFlush
    \/ CrashRestart

Spec == Init /\ [][Next]_vars

(***************************************************************************)
(* calculate_backoff on its own: the configuration value                   *)
(* initial_backoff_ms and the attempt count are drawn, then the delay is   *)
(* computed with the jitter the generator returns.                         *)
(***************************************************************************)
MaxAttemptsArg == 22
BackoffInitials ==
    {0, 1, 2, 3, 1000, 3000, 150000, 300000, 300001, 1073741824, UMax}
BackoffJitters == {0, 1, 500, JITTER_MS}

BackoffInit ==
    /\ InitBroker
    /\ api = None
    /\ backoff \in {Some([initial_backoff_ms |-> i, attempts |-> a,
                          jitter |-> None, delay |-> None]) :
                        i \in BackoffInitials, a \in 0..MaxAttemptsArg}

BackoffCompute(jitter) ==
    /\ backoff # None
    /\ Unwrap(backoff).delay = None
    /\ backoff' = Some([Unwrap(backoff) EXCEPT
                          !.jitter = Some(jitter),
                          !.delay = Some(calculate_backoff(
                                        Unwrap(backoff).initial_backoff_ms,
                                        Unwrap(backoff).attempts, jitter))])
    /\ UNCHANGED <<db, disk, now, fw_batch, fw_job, nt_batch, request, reply,
                   nsubmits, faults, crashes, http_calls, net_errs, sink,
                   ever_confirmed, http_last, api>>

BackoffNext == \E jitter \in BackoffJitters : BackoffCompute(jitter)

BackoffSpec == BackoffInit /\ [][BackoffNext]_vars

(***************************************************************************)
(* The broker on its happy path: no storage error, no crash, the Central   *)
(* API answers every call with 200, and the two workers' ticks keep        *)
(* coming (tokio::time::interval) and the HTTP call returns.               *)
(***************************************************************************)
OkResponse == [kind |-> "response", status |-> 200, body |-> "{\"id\":\"b-42\"}"]

ForwarderTick ==
    \E f \in SingleForwarder :
       \/ ForwarderScan(f, NoFault)
       \/ ForwarderBegin(f, NoFault)
       \/ ForwarderEnd(f, OkResponse, 0, NoFault)

NotifierTick == NotifierScan(NoFault) \/ NotifierStep(NoFault)

LiveNext ==
    \/ \E cid \in Cids, payload \in Payloads : Submit(cid, payload, NoFault)
    \/ ForwarderTick
    \/ NotifierTick
    \/ \E t \in {now + 1} \cup DueTimes : ClockAdvance(t)

LiveSpec ==
    /\ Init
    /\ [][LiveNext]_vars
    /\ WF_vars(ForwarderTick)
    /\ WF_vars(NotifierTick)

(***************************************************************************)
(* Calls of storage operations on their own.  The store a call is made on  *)
(* is one the broker's operations build: for each id, independently, no    *)
(* job, a job submitted at time 0, 1 or 2, a job in Sending, a job sent    *)
(* back to Queued by a retry, a Failed job, or a Confirmed job without a   *)
(* notification, with a Pending one or with a SimulatedSent one.           *)
(***************************************************************************)
MaxScanLimit == 3

JobHistories ==
    {"absent", "queued0", "queued1", "queued2", "sending", "requeued",
     "failed", "confirmed", "notified", "sent"}

ApiPayload == CHOOSE p \in Payloads : p.booking.name = "Alice"

\* the store d after the operations that give the job of cid the history h
StoreAfter(d, cid, h) ==
    LET job(t) == NewBookingJob(cid, ApiPayload.booking, ApiPayload.notify, t)
        queued(t) == persist_booking_job(d, d, job(t), "none").db
        sending == process_job_begin(queued(0), queued(0), job(0), 0, "none").db
        ended(outcome) ==
            process_job_end(sending, sending, job(0), outcome, 0, JITTER_MS,
                            NoFault).db
        confirmed ==
            update_job_state(sending, sending, cid,
                JobStateUpdate("Confirmed", None, None, None, Some(200),
                               Some(OkResponse.body)), 0, "none").db
        notified == ended(OkResponse)
        notif == Unwrap(get_notification(notified, cid, "none").val)
    IN  CASE h = "absent" -> d
          [] h = "queued0" -> queued(0)
          [] h = "queued1" -> queued(1)
          [] h = "queued2" -> queued(2)
          [] h = "sending" -> sending
          [] h = "requeued" ->
                ended([kind |-> "network_error",
                       error |-> "error sending request"])
          [] h = "failed" ->
                ended([kind |-> "response", status |-> 422,
                       body |-> "{\"error\":\"bad date\"}"])
          [] h = "confirmed" -> confirmed
          [] h = "notified" -> notified
          [] h = "sent" ->
                process_notification(notified, notified, notif, 1, NoFault).db

RECURSIVE StoreOf(_, _)
StoreOf(hist, i) ==
    IF i = 0 THEN EmptyDb
    ELSE StoreAfter(StoreOf(hist, i - 1), ApiCidsSorted[i], hist[i])

ApiStores ==
    {StoreOf(hist, Len(ApiCidsSorted)) :
        hist \in [1..Len(ApiCidsSorted) -> JobHistories]}

\* the times at which a scan is made: before and after the retry is due
ApiScanTimes == {1, 2 * InitialBackoffMs + JITTER_MS}

\* the NotificationRecord create_notification builds
ApiNotifications ==
    {[correlation_id |-> c, email_to |-> e, state |-> "Pending",
      attempts |-> 0, next_attempt_at |-> t, last_error |-> None,
      subject |-> <<>>, body |-> <<>>, simulated_sent_at |-> None,
      created_at |-> t, updated_at |-> t] :
        c \in ApiCids, e \in {"a@x.io", "z@x.io"}, t \in {0, 5}}

\* the time at which an update is made
ApiUpdateTime == 7

\* the patches the Forwarder sends: the lease, a confirmation, a hard
\* rejection, a retry and the end of the retries
ApiUpdates ==
    {JobStateUpdate("Sending", None, None, None, None, None),
     JobStateUpdate("Confirmed", None, None, None, Some(200),
                    Some(OkResponse.body)),
     JobStateUpdate("Failed", None, None,
                    Some(<<"HTTP ", StatusString(422), ": ",
                           "{\"error\":\"bad date\"}">>),
                    Some(422), Some("{\"error\":\"bad date\"}")),
     JobStateUpdate("Queued", Some(2),
                    Some(ApiUpdateTime + 4 * InitialBackoffMs),
                    Some(<<"connection refused">>), None, None),
     JobStateUpdate("Failed", Some(2), None,
                    Some(<<"Max retries exceeded: ", "connection refused">>),
                    None, None)}

\* the arguments of update_notification_state: the Notifier's, and a bare
\* change of state
ApiNotificationUpdates ==
    {[state |-> "SimulatedSent", simulated_sent_at |-> Some(ApiUpdateTime),
      subject |-> Some(<<"Booking Confirmed - ", "Alice">>),
      body |-> Some(<<"Hello ", "Alice">>)],
     [state |-> "Failed", simulated_sent_at |-> None, subject |-> None,
      body |-> None]}

ApiCalls ==
    {[op |-> "get_due_jobs", db |-> d, limit |-> l, now |-> t,
      result |-> None] :
        d \in ApiStores, l \in 0..MaxScanLimit, t \in ApiScanTimes}
    \cup
    {[op |-> "persist_notification", db |-> d, notif |-> n,
      result |-> None] : d \in ApiStores, n \in ApiNotifications}
    \cup
    {[op |-> "update_job_state", db |-> d, correlation_id |-> c,
      update |-> u, now |-> ApiUpdateTime, result |-> None, error |-> None] :
        d \in ApiStores, c \in ApiCids, u \in ApiUpdates}
    \cup
    {[op |-> "update_notification_state", db |-> d, correlation_id |-> c,
      patch |-> u, now |-> ApiUpdateTime, result |-> None, error |-> None] :
        d \in ApiStores, c \in ApiCids, u \in ApiNotificationUpdates}

StorageInit ==
    /\ InitBroker
    /\ backoff = None
    /\ api \in {Some(call) : call \in ApiCalls}

UnchangedBroker ==
    UNCHANGED <<db, disk, now, fw_batch, fw_job, nt_batch, request, reply,
                nsubmits, faults, crashes, http_calls, net_errs, sink,
                ever_confirmed, http_last, backoff>>

ApiGetDueJobs ==
    /\ api # None
    /\ Unwrap(api).op = "get_due_jobs"
    /\ Unwrap(api).result = None
    /\ LET call == Unwrap(api)
       IN  api' = Some([call EXCEPT !.result =
                   Some(get_due_jobs(call.db, call.limit, call.now, "none"))])
    /\ UnchangedBroker

ApiPersistNotification ==
    /\ api # None
    /\ Unwrap(api).op = "persist_notification"
    /\ Unwrap(api).result = None
    /\ LET call == Unwrap(api)
       IN  api' = Some([call EXCEPT !.result =
                   Some(persist_notification(call.db, call.db, call.notif,
                                             "none"))])
    /\ UnchangedBroker

ApiUpdateJobState ==
    /\ api # None
    /\ Unwrap(api).op = "update_job_state"
    /\ Unwrap(api).result = None
    /\ LET call == Unwrap(api)
       IN  api' = Some([call EXCEPT
                   !.result = Some(update_job_state(call.db, call.db,
                                       call.correlation_id, call.update,
                                       call.now, "none")),
                   !.error = update_job_state_error(call.db,
                                 call.correlation_id)])
    /\ UnchangedBroker

ApiUpdateNotificationState ==
    /\ api # None
    /\ Unwrap(api).op = "update_notification_state"
    /\ Unwrap(api).result = None
    /\ LET call == Unwrap(api)
       IN  api' = Some([call EXCEPT
                   !.result = Some(update_notification_state(call.db, call.db,
                                       call.correlation_id, call.patch.state,
                                       call.patch.simulated_sent_at,
                                       call.patch.subject, call.patch.body,
                                       call.now, "none")),
                   !.error = update_notification_state_error(call.db,
                                 call.correlation_id)])
    /\ UnchangedBroker

StorageNext ==
    \/ ApiGetDueJobs
    \/ ApiPersistNotification
    \/ ApiUpdateJobState
    \/ ApiUpdateNotificationState

StorageSpec == StorageInit /\ [][StorageNext]_vars

(***************************************************************************)
(* Concurrent callers of one BrokerStorage.  The storage methods take      *)
(* &self and the store is shared through an Arc, so several callers can be *)
(* inside a method at once; each method is a sequence of separate sled     *)
(* calls (contains_key or get, then insert of the record, then insert of   *)
(* the index entry, then flush).  A caller is a record with the method it  *)
(* runs, its argument, the sled call it is about to make, the record it    *)
(* read, and its result; a step of the race makes one sled call of one     *)
(* caller.  flush changes nothing in memory and is folded into the last    *)
(* step.                                                                   *)
(***************************************************************************)
MaxRaceCallers == 3

RaceCid == CidLongA

\* the time every racing update_job_state stamps into updated_at
RaceTime == 5

RaceUpdates ==
    {JobStateUpdate("Sending", None, None, None, None, None),
     JobStateUpdate("Confirmed", None, None, None, Some(200),
                    Some(OkResponse.body)),
     JobStateUpdate("Queued", Some(1), Some(RaceTime + 2 * InitialBackoffMs),
                    Some(<<"error sending request">>), None, None)}

RaceMethods ==
    {[method |-> "persist_booking_job",
      arg |-> NewBookingJob(RaceCid, p.booking, p.notify, 1)] :
        p \in Payloads}
    \cup
    {[method |-> "update_job_state", arg |-> u] : u \in RaceUpdates}

RaceCaller(m) ==
    [method |-> m.method, arg |-> m.arg, pc |-> "start", read |-> None,
     result |-> "none"]

RaceStores ==
    {StoreAfter(EmptyDb, RaceCid, h) : h \in {"absent", "queued0", "sending"}}

RaceCalls ==
    {[op |-> "race", db |-> d, callers |-> [i \in DOMAIN ms |-> RaceCaller(ms[i])],
      initial |-> d] :
        d \in RaceStores,
        ms \in UNION {[1..n -> RaceMethods] : n \in 2..MaxRaceCallers}}

RaceInit ==
    /\ InitBroker
    /\ backoff = None
    /\ api \in {Some(call) : call \in RaceCalls}

Racing == api # None /\ Unwrap(api).op = "race"

\* the first sled call of a method: contains_key in persist_booking_job,
\* get in update_job_state
RaceLookup(i) ==
    /\ Racing
    /\ i \in DOMAIN Unwrap(api).callers
    /\ Unwrap(api).callers[i].pc = "start"
    /\ LET race == Unwrap(api)
           c == race.callers[i]
           found == get_booking_job(race.db, RaceCid, "none").val
           after ==
               IF c.method = "persist_booking_job"
               THEN IF RecKey(RaceCid) \in DOMAIN race.db.booking_jobs
                    THEN [c EXCEPT !.pc = "done", !.result = "exists"]
                    ELSE [c EXCEPT !.pc = "insert"]
               ELSE IF found = None
                    THEN [c EXCEPT !.pc = "done", !.result = "not_found"]
                    ELSE [c EXCEPT !.pc = "insert", !.read = found]
       IN  api' = Some([race EXCEPT !.callers[i] = after])
    /\ UnchangedBroker

\* the insert of the record: the new job in persist_booking_job, the
\* patched copy of the record read earlier in update_job_state
RaceInsert(i) ==
    /\ Racing
    /\ i \in DOMAIN Unwrap(api).callers
    /\ Unwrap(api).callers[i].pc = "insert"
    /\ LET race == Unwrap(api)
           c == race.callers[i]
           job == IF c.method = "persist_booking_job" THEN c.arg
                  ELSE PatchedJob(Unwrap(c.read), c.arg, RaceTime)
           d == [race.db EXCEPT !.booking_jobs =
                     TreeInsert(@, RecKey(RaceCid), Serialize(job))]
       IN  api' = Some([race EXCEPT !.db = d,
                   !.callers[i] = [c EXCEPT !.pc = "index",
                                            !.read = Some(job)]])
    /\ UnchangedBroker

\* update_job_index, then flush, then Ok
RaceIndex(i) ==
    /\ Racing
    /\ i \in DOMAIN Unwrap(api).callers
    /\ Unwrap(api).callers[i].pc = "index"
    /\ LET race == Unwrap(api)
           c == race.callers[i]
           d == update_job_index(race.db, Unwrap(c.read))
       IN  api' = Some([race EXCEPT !.db = d,
                   !.callers[i] = [c EXCEPT !.pc = "done", !.result = "ok"]])
    /\ UnchangedBroker

RaceNext ==
    \E i \in 1..MaxRaceCallers : RaceLookup(i) \/ RaceInsert(i) \/ RaceIndex(i)

RaceSpec == RaceInit /\ [][RaceNext]_vars

(***************************************************************************)
(* SubmitBooking requests arriving at the swarm loop of a node, for every  *)
(* role, with and without a broker handler, on stores in which the job of  *)
(* the request has each of the histories above or is absent, and with a    *)
(* storage failure at each point of the handler.                           *)
(***************************************************************************)
SwarmStores == {StoreAfter(EmptyDb, CidLongA, h) : h \in JobHistories}

SwarmCalls ==
    {[op |-> "submit_booking", role |-> role, broker_handler |-> h, db |-> d,
      correlation_id |-> c, payload |-> p, now |-> 1, fault |-> f,
      result |-> None] :
        role \in Roles, h \in {None, Some("BrokerHandler")}, d \in SwarmStores,
        c \in {CidLongA, CidLongB}, p \in Payloads, f \in SubmitFaults}

SwarmInit ==
    /\ InitBroker
    /\ backoff = None
    /\ api \in {Some(call) : call \in SwarmCalls}

SwarmSubmitBooking ==
    /\ api # None
    /\ Unwrap(api).op = "submit_booking"
    /\ Unwrap(api).result = None
    /\ LET call == Unwrap(api)
       IN  api' = Some([call EXCEPT !.result =
                   Some(on_submit_booking(call.role, call.broker_handler,
                            call.db, call.db, call.correlation_id,
                            call.payload.booking, call.payload.notify,
                            call.now, call.fault))])
    /\ UnchangedBroker

SwarmNext == SwarmSubmitBooking

SwarmSpec == SwarmInit /\ [][SwarmNext]_vars

(***************************************************************************)
(* Two Forwarder instances on one store.  Each runs process_due_jobs on    *)
(* its own interval: a scan, then process_job for each job of its batch.   *)
(* A scan is a step here even when it returns nothing, and api holds the   *)
(* last scan made: the instance, the store it read and the jobs returned.  *)
(* No storage failure and no crash is injected; the payload and the jitter *)
(* are fixed.                                                              *)
(***************************************************************************)
InstanceScan(f) ==
    /\ fw_batch[f] = <<>> /\ fw_job[f] = None
    /\ LET r == get_due_jobs(db, BatchLimit, now, "none")
       IN  /\ r.ok
           /\ fw_batch' = [fw_batch EXCEPT ![f] = r.val]
           /\ api' = Some([op |-> "process_due_jobs", forwarder |-> f,
                           db |-> db, jobs |-> r.val])
    /\ UNCHANGED <<db, disk, now, fw_job, nt_batch, request, reply, nsubmits,
                   faults, crashes, http_calls, net_errs, sink, ever_confirmed,
                   http_last, backoff>>

\* the answers of the Central API taken here: a 200 and a network error
LeaseOutcomes ==
    {o \in HttpOutcomes : o = OkResponse \/ o.kind = "network_error"}

TwoForwardersNext ==
    \/ \E cid \in Cids : Submit(cid, ApiPayload, NoFault)
    \/ \E f \in ForwarderIds : InstanceScan(f)
    \/ \E f \in ForwarderIds : ForwarderBegin(f, NoFault)
    \/ \E f \in ForwarderIds, outcome \in LeaseOutcomes :
           ForwarderEnd(f, outcome, 0, NoFault)
    \/ NotifierScan(NoFault)
    \/ NotifierStep(NoFault)
    \/ \E t \in {now + 1} \cup DueTimes : ClockAdvance(t)

TwoForwardersSpec == Init /\ [][TwoForwardersNext]_vars

(***************************************************************************)
(* The worker loops on their own.  A worker (the Forwarder or the          *)
(* Notifier) is started on a store and runs whole ticks, one after the     *)
(* other; the environment picks a TickPlan for each.  The stores hold,     *)
(* besides the records the broker writes in a run of one Forwarder, the    *)
(* records the error branches of the workers are written for: a job whose  *)
(* stored booking_json does not parse (corrupt), a notification without a  *)
(* job (orphan), and a notification whose job a retry has written back to  *)
(* Queued after its confirmation (reverted).  api holds the run: the       *)
(* worker, the store, the clock, the ticks made, how many of them logged   *)
(* an error, whether the loop is still running, and what the last tick did *)
(* on which store.                                                         *)
(***************************************************************************)
MaxTicks == 2

TickHistories ==
    {"absent", "queued0", "corrupt", "notified", "orphan", "reverted"}

TickStoreAfter(d, cid, h) ==
    LET job == NewBookingJob(cid, ApiPayload.booking, ApiPayload.notify, 0)
        notified == StoreAfter(d, cid, "notified")
    IN  CASE h = "corrupt" ->
                persist_booking_job(d, d, [job EXCEPT !.booking_json = <<"{">>],
                                    "none").db
          [] h = "orphan" ->
                create_notification(d, d, cid, job.notify_json, 0, "none").db
          [] h = "reverted" ->
                handle_retry(notified, notified, cid, 0,
                             "error sending request", 0, 0, "none").db
          [] OTHER -> StoreAfter(d, cid, h)

RECURSIVE TickStoreOf(_, _)
TickStoreOf(hist, i) ==
    IF i = 0 THEN EmptyDb
    ELSE TickStoreAfter(TickStoreOf(hist, i - 1), ApiCidsSorted[i], hist[i])

TickStores ==
    {TickStoreOf(hist, Len(ApiCidsSorted)) :
        hist \in [1..Len(ApiCidsSorted) -> TickHistories]}

NetworkError == [kind |-> "network_error", error |-> "error sending request"]

TickPlans ==
    {[scan_at |-> "iter", outcome |-> OkResponse, jitter |-> 0,
      fail_item |-> 0, fault |-> NoFault]}
    \cup
    {[scan_at |-> "none", outcome |-> o, jitter |-> 0, fail_item |-> 0,
      fault |-> NoFault] : o \in {OkResponse, NetworkError}}
    \cup
    {[scan_at |-> "none", outcome |-> o, jitter |-> 0, fail_item |-> n,
      fault |-> f] :
        o \in {OkResponse, NetworkError}, n \in 1..2,
        f \in {[op |-> 1, at |-> "get"], [op |-> 2, at |-> "insert"]}}

WorkerRuns ==
    {[op |-> "run", worker |-> w, db |-> d, disk |-> d, now |-> 0,
      ticks |-> 0, errs |-> 0, loop |-> "running", last |-> None] :
        w \in {"forwarder", "notifier"}, d \in TickStores}

WorkerInit ==
    /\ InitBroker
    /\ backoff = None
    /\ api \in {Some(r) : r \in WorkerRuns}

\* one pass of the loop of run: sleep, tick, log an Err
WorkerTick(worker, plan) ==
    /\ IsSome(api)
    /\ Unwrap(api).op = "run"
    /\ Unwrap(api).worker = worker
    /\ Unwrap(api).loop = "running"
    /\ Unwrap(api).ticks < MaxTicks
    /\ \E w \in {Unwrap(api)} :
          \E r \in {IF worker = "forwarder"
                    THEN process_due_jobs(w.db, w.disk, w.now + 1, plan)
                    ELSE process_due_notifications(w.db, w.disk, w.now + 1,
                                                   plan)} :
             api' = Some([w EXCEPT !.db = r.db, !.disk = r.disk,
                                   !.now = @ + 1, !.ticks = @ + 1,
                                   !.loop = run(r),
                                   !.errs = IF r.ok /\ r.failed = <<>>
                                            THEN @ ELSE @ + 1,
                                   !.last = Some([before |-> w.db,
                                                  plan |-> plan,
                                                  ok |-> r.ok,
                                                  batch |-> r.batch,
                                                  processed |-> r.processed,
                                                  called |-> r.called,
                                                  failed |-> r.failed])])
    /\ UnchangedBroker

ForwarderRun == \E plan \in TickPlans : WorkerTick("forwarder", plan)

NotifierRun == \E plan \in TickPlans : WorkerTick("notifier", plan)

WorkerNext == ForwarderRun \/ NotifierRun

WorkerSpec == WorkerInit /\ [][WorkerNext]_vars

(***************************************************************************)
(* One Forwarder that keeps ticking against a Central API that answers     *)
(* as it likes: no crash, no storage error, every HTTP call returns.  The  *)
(* ticks are fairly scheduled and the clock reaches every due time.        *)
(***************************************************************************)
ForwarderAnyTick ==
    \E f \in SingleForwarder :
       \/ ForwarderScan(f, NoFault)
       \/ ForwarderBegin(f, NoFault)
       \/ \E outcome \in HttpOutcomes, jitter \in JitterChoices :
             ForwarderEnd(f, outcome, jitter, NoFault)

ClockReachesDue == \E t \in DueTimes : ClockAdvance(t)

ForwardingNext ==
    \/ \E cid \in Cids, payload \in Payloads : Submit(cid, payload, NoFault)
    \/ ForwarderAnyTick
    \/ NotifierTick
    \/ ClockAdvance(now + 1)
    \/ ClockReachesDue

ForwardingSpec ==
    /\ Init
    /\ [][ForwardingNext]_vars
    /\ WF_vars(ForwarderAnyTick)
    /\ WF_vars(NotifierTick)
    /\ WF_vars(ClockReachesDue)

(***************************************************************************)
(* The broker with a Central API that confirms every booking, storage      *)
(* errors in the Forwarder's writes of the outcome, and a crash: what can  *)
(* come between the Confirmed write and the insert of the notification.    *)
(* The ticks of both workers are fairly scheduled.                         *)
(***************************************************************************)
ForwarderConfirmingTick ==
    \E f \in SingleForwarder :
       \/ ForwarderScan(f, NoFault)
       \/ ForwarderBegin(f, NoFault)
       \/ \E fault \in EndFaults : ForwarderEnd(f, OkResponse, 0, fault)

DeliveryNext ==
    \/ \E cid \in Cids, payload \in Payloads : Submit(cid, payload, NoFault)
    \/ ForwarderConfirmingTick
    \/ NotifierTick
    \/ \E t \in {now + 1} \cup DueTimes : ClockAdvance(t)
    \/ BackgroundFlush
    \/ CrashRestart

DeliverySpec ==
    /\ Init
    /\ [][DeliveryNext]_vars
    /\ WF_vars(ForwarderConfirmingTick)
    /\ WF_vars(NotifierTick)

(***************************************************************************)
(* Reading the store.                                                      *)
(***************************************************************************)
HasJob(d, cid) == IsSome(JobIn(d, cid))
JobOf(d, cid) == Unwrap(JobIn(d, cid))
HasNotif(d, cid) == IsSome(NotifIn(d, cid))
NotifOf(d, cid) == Unwrap(NotifIn(d, cid))
JobStateIn(d, cid) == IF HasJob(d, cid) THEN JobOf(d, cid).state ELSE "Absent"

\* the entries of the job tree that hold a job record of an id
JobRecords(d, cid) ==
    {key \in DOMAIN d.booking_jobs :
        /\ d.booking_jobs[key] # EmptyBytes
        /\ d.booking_jobs[key][1].correlation_id = cid}

Terminal == {"Confirmed", "Failed"}
SubmitStep == nsubmits' # nsubmits
CrashStep == crashes' # crashes

(***************************************************************************)
(* C1  Idempotent submission.  In a run of submissions, Forwarder steps    *)
(* and Notifier steps: no id ever has more than one job record; a record   *)
(* once stored stays the one record of its id, with the payloads and the   *)
(* creation time of the first submission; and every submission answered    *)
(* with an ACK other than "error" leaves exactly one job record of its id  *)
(* and carries the status of that record's state at the reply: Queued or   *)
(* Sending "queued", Confirmed "confirmed", Failed "failed".               *)
(***************************************************************************)
C1_IdempotentSubmission ==
    [][ /\ \A c \in Cids : Cardinality(JobRecords(db', c)) <= 1
        /\ ~CrashStep =>
             \A c \in Cids :
                HasJob(db, c) =>
                  /\ JobRecords(db', c) = {RecKey(c)}
                  /\ JobOf(db', c).created_at = JobOf(db, c).created_at
                  /\ JobOf(db', c).booking_json = JobOf(db, c).booking_json
                  /\ JobOf(db', c).notify_json = JobOf(db, c).notify_json
        /\ (SubmitStep /\ Unwrap(reply').status # "error") =>
             LET c == Unwrap(reply').correlation_id
             IN  /\ JobRecords(db', c) = {RecKey(c)}
                 /\ Unwrap(reply').status = AckStatus(JobOf(db', c).state)
                 /\ Unwrap(reply').status \in {"queued", "confirmed", "failed"}
      ]_vars

\* a retransmission was answered "confirmed"
C1_Witness ==
    /\ nsubmits = 2
    /\ reply = Some([correlation_id |-> CidLongA, status |-> "confirmed"])
    /\ JobStateIn(db, CidLongA) = "Confirmed"

(***************************************************************************)
(* C2  Persist-before-ack.  Whenever the ACK last sent has status          *)
(* "queued", the job record of its id is on stable storage, so that a      *)
(* crash right after the ACK and a restart find the job - on a first       *)
(* submission, on a retransmission, and on a retransmission after a        *)
(* submission that ended in a storage error.                               *)
(***************************************************************************)
C2_PersistBeforeAck ==
    (reply # None /\ Unwrap(reply).status = "queued") =>
        HasJob(disk, Unwrap(reply).correlation_id)

(***************************************************************************)
(* C3  Terminal states are permanent.  With one Forwarder and one          *)
(* Notifier, no submission, Forwarder step or Notifier step changes the    *)
(* state of a job that is stored as Confirmed or Failed; and the state of  *)
(* a job that stable storage holds as Confirmed or Failed never changes.   *)
(***************************************************************************)
C3_TerminalPermanent ==
    [][ \A c \in Cids :
          /\ (JobStateIn(db, c) \in Terminal /\ ~CrashStep) =>
                JobStateIn(db', c) = JobStateIn(db, c)
          /\ JobStateIn(disk, c) \in Terminal =>
                JobStateIn(disk', c) = JobStateIn(disk, c)
      ]_vars

\* a retransmission found the job Failed
C3_Witness ==
    /\ nsubmits = 2
    /\ reply = Some([correlation_id |-> CidLongA, status |-> "failed"])
    /\ JobStateIn(db, CidLongA) = "Failed"
    /\ JobStateIn(disk, CidLongA) = "Failed"

(***************************************************************************)
(* C4  Retry cap.  No job gets more than max_retry_attempts + 1 HTTP       *)
(* calls.  A job all of whose HTTP calls ended in a network error is       *)
(* Failed only after exactly max_retry_attempts + 1 calls, then with       *)
(* attempts = max_retry_attempts + 1, last_error beginning "Max retries    *)
(* exceeded" and no NotificationRecord; after that many network errors     *)
(* the job is never Queued again (it is Failed, unless the write of        *)
(* Failed met a storage error or a crash); and a Failed job is neither in  *)
(* the Forwarder's batch nor in flight.                                    *)
(***************************************************************************)
C4_RetryCap ==
    \A c \in Cids :
      /\ http_calls[c] <= MaxRetryAttempts + 1
      /\ net_errs[c] <= http_calls[c]
      /\ (HasJob(db, c) /\ JobOf(db, c).state = "Failed"
            /\ net_errs[c] = http_calls[c]) =>
           /\ http_calls[c] = MaxRetryAttempts + 1
           /\ JobOf(db, c).attempts = MaxRetryAttempts + 1
           /\ IsSome(JobOf(db, c).last_error)
           /\ Head(Unwrap(JobOf(db, c).last_error)) = "Max retries exceeded: "
           /\ ~HasNotif(db, c)
      /\ (HasJob(db, c) /\ net_errs[c] = MaxRetryAttempts + 1) =>
           /\ JobOf(db, c).state # "Queued"
           /\ (faults = 0 /\ crashes = 0) => JobOf(db, c).state = "Failed"
      /\ (HasJob(db, c) /\ JobOf(db, c).state = "Failed") =>
           \A f \in SingleForwarder :
              /\ fw_job[f] = None \/ Unwrap(fw_job[f]).correlation_id # c
              /\ \A i \in 1..Len(fw_batch[f]) :
                    fw_batch[f][i].correlation_id # c

\* the job failed after max_retry_attempts + 1 network errors
C4_Witness ==
    /\ http_calls[CidLongA] = MaxRetryAttempts + 1
    /\ net_errs[CidLongA] = MaxRetryAttempts + 1
    /\ JobStateIn(db, CidLongA) = "Failed"
    /\ JobOf(db, CidLongA).attempts = MaxRetryAttempts + 1

(***************************************************************************)
(* C5  Notification precondition and ordering.  In memory and on stable    *)
(* storage alike, every NotificationRecord has a job of the same id that   *)
(* is stored as Confirmed and was written as Confirmed by the Forwarder;   *)
(* no job in Queued, Sending or Failed has a notification.                 *)
(***************************************************************************)
C5_NotificationPrecondition ==
    \A c \in Cids :
      /\ HasNotif(db, c) =>
           /\ JobStateIn(db, c) = "Confirmed"
           /\ c \in ever_confirmed
           /\ NotifOf(db, c).correlation_id = c
           /\ NotifOf(db, c).created_at >= JobOf(db, c).updated_at
      /\ HasNotif(disk, c) => JobStateIn(disk, c) = "Confirmed"

\* a notification is in the outbox
C5_Witness ==
    /\ HasNotif(db, CidLongA)
    /\ HasNotif(disk, CidLongA)
    /\ NotifOf(db, CidLongA).state = "Pending"

(***************************************************************************)
(* C6  Allowed job transitions.  A job record appears only in Queued, and  *)
(* every step other than a crash changes a stored state only along         *)
(* Queued -> Sending (nothing else of the record changes but updated_at),  *)
(* Sending -> Confirmed (with a 2xx http_status), Sending -> Failed (with  *)
(* another http_status, or with retries exhausted) and Sending -> Queued   *)
(* (attempts one higher and within max_retry_attempts).                    *)
(***************************************************************************)
TransitionAllowed(old, new) ==
    \/ new.state = old.state
    \/ /\ old.state = "Queued" /\ new.state = "Sending"
       /\ new = [old EXCEPT !.state = "Sending", !.updated_at = new.updated_at]
    \/ /\ old.state = "Sending" /\ new.state = "Confirmed"
       /\ IsSome(new.http_status) /\ is_success(Unwrap(new.http_status))
    \/ /\ old.state = "Sending" /\ new.state = "Failed"
       /\ \/ IsSome(new.http_status) /\ ~is_success(Unwrap(new.http_status))
          \/ /\ new.attempts = old.attempts + 1
             /\ new.attempts > MaxRetryAttempts
    \/ /\ old.state = "Sending" /\ new.state = "Queued"
       /\ new.attempts = old.attempts + 1
       /\ new.attempts <= MaxRetryAttempts

C6_AllowedTransitions ==
    [][ ~CrashStep =>
          \A c \in Cids :
             /\ (HasJob(db, c) /\ HasJob(db', c)) =>
                   TransitionAllowed(JobOf(db, c), JobOf(db', c))
             /\ (~HasJob(db, c) /\ HasJob(db', c)) =>
                   /\ JobOf(db', c).state = "Queued"
                   /\ SubmitStep
      ]_vars

\* a network error sent the job back to Queued
C6_Witness ==
    /\ JobStateIn(db, CidLongA) = "Queued"
    /\ JobOf(db, CidLongA).attempts = 1
    /\ net_errs[CidLongA] = 1

(***************************************************************************)
(* C7  Backoff bounds of the specification.  For every attempt count       *)
(* k >= 1 and every initial_backoff_ms, the delay d of calculate_backoff   *)
(* satisfies floor <= d <= floor + 1000 with                               *)
(* floor = min(initial_backoff_ms * 2^min(k,20), 300000), the product      *)
(* taken in the integers: the doubling saturates, it does not wrap.        *)
(***************************************************************************)
\* min(initial * 2^min(k,20), 300000) without forming the product
SpecBackoffFloor(initial, k) ==
    LET p == Pow2(Min(k, 20))
    IN  IF initial > 300000 \div p THEN 300000 ELSE initial * p

C8_UnitTestBounds ==
    (backoff # None /\ IsSome(Unwrap(backoff).delay)
        /\ Unwrap(backoff).initial_backoff_ms = 1000
        /\ Unwrap(backoff).attempts \in 1..3) =>
       LET b == Unwrap(backoff)
           d == Unwrap(b.delay)
           base == b.initial_backoff_ms * Pow2(b.attempts - 1)
       IN  base <= d /\ d <= base + 1000

(***************************************************************************)
(* C9  A submission for an id that already has a job record changes        *)
(* nothing in the store, in memory or on stable storage, whatever booking  *)
(* and notify data it carries, and its reply is the status of the stored   *)
(* state (or "error" when the lookup failed).                              *)
(***************************************************************************)
C9_ResubmitLeavesRecord ==
    [][ (SubmitStep /\ HasJob(db, Unwrap(request').correlation_id)) =>
          LET c == Unwrap(request').correlation_id
          IN  /\ db' = db
              /\ disk' = disk
              /\ Unwrap(reply').correlation_id = c
              /\ Unwrap(reply').status
                    \in {AckStatus(JobOf(db, c).state), "error"}
              /\ faults' = faults =>
                    Unwrap(reply').status = AckStatus(JobOf(db, c).state)
      ]_vars

\* a retransmission carried other booking and notify data than the stored job
C9_Witness ==
    /\ nsubmits = 2
    /\ request # None
    /\ HasJob(db, Unwrap(request).correlation_id)
    /\ LET job == JobOf(db, Unwrap(request).correlation_id)
       IN  /\ job.booking_json # ToJsonString(Unwrap(request).booking)
           /\ job.notify_json # ToJsonString(Unwrap(request).notify)
           /\ job.state = "Sending"
    /\ Unwrap(reply).status = "queued"

(***************************************************************************)
(* C10  The first successful submission of an id with no job record        *)
(* stores a job in Queued with attempts 0, next_attempt_at, created_at     *)
(* and updated_at equal to the time of the submission, the payloads        *)
(* serialized from the message, and no last_error, http_status or          *)
(* central_response; the job is due at once and the reply is "queued".     *)
(***************************************************************************)
C10_FirstSubmit ==
    [][ (SubmitStep /\ ~HasJob(db, Unwrap(request').correlation_id)
           /\ Unwrap(reply').status # "error") =>
          LET c == Unwrap(request').correlation_id
              r == Unwrap(request')
          IN  /\ Unwrap(reply') = [correlation_id |-> c, status |-> "queued"]
              /\ HasJob(db', c)
              /\ JobOf(db', c) =
                   [correlation_id |-> c,
                    booking_json |-> ToJsonString(r.booking),
                    notify_json |-> ToJsonString(r.notify),
                    state |-> "Queued",
                    attempts |-> 0,
                    next_attempt_at |-> now,
                    last_error |-> None,
                    http_status |-> None,
                    central_response_json |-> None,
                    created_at |-> now,
                    updated_at |-> now]
              /\ JobOf(db', c).next_attempt_at <= now'
              /\ disk' = db'
      ]_vars

\* the first submission of the short id was acknowledged
C10_Witness ==
    /\ nsubmits = 1
    /\ reply = Some([correlation_id |-> CidShort, status |-> "queued"])
    /\ JobStateIn(db, CidShort) = "Queued"
    /\ JobOf(db, CidShort).attempts = 0

(***************************************************************************)
(* Reading a step: the Forwarder finished the HTTP call it had in flight   *)
(* for an id; what the call ended in is http_last'.                        *)
(***************************************************************************)
EndStep(c) ==
    /\ ~CrashStep
    /\ \E f \in SingleForwarder :
          /\ fw_job[f] # None
          /\ Unwrap(fw_job[f]).correlation_id = c
          /\ fw_job'[f] = None
StorageOk == faults' = faults

(***************************************************************************)
(* C11  Confirmation path.  When the HTTP call of a job ends in a status   *)
(* in 200..299 and no storage call fails, the job goes from Sending to     *)
(* Confirmed with http_status the code and central_response the body and   *)
(* nothing else changed but updated_at, and a NotificationRecord of the    *)
(* same id is inserted that was not there before: Pending, attempts 0,     *)
(* next_attempt_at = now, empty subject and body, email_to the email of    *)
(* the stored notify payload; both writes are on stable storage.           *)
(***************************************************************************)
C11_ConfirmationPath ==
    [][ \A c \in Cids :
          (/\ EndStep(c)
           /\ StorageOk
           /\ Unwrap(http_last').outcome.kind = "response"
           /\ is_success(Unwrap(http_last').outcome.status)) =>
             LET outcome == Unwrap(http_last').outcome
             IN  /\ JobStateIn(db, c) = "Sending"
                 /\ JobOf(db', c) =
                      [JobOf(db, c) EXCEPT
                          !.state = "Confirmed",
                          !.http_status = Some(outcome.status),
                          !.central_response_json = Some(outcome.body),
                          !.updated_at = now]
                 /\ ~HasNotif(db, c)
                 /\ HasNotif(db', c)
                 /\ NotifOf(db', c) =
                      [correlation_id |-> c,
                       email_to |->
                           FromJsonStr(JobOf(db, c).notify_json).val.email,
                       state |-> "Pending",
                       attempts |-> 0,
                       next_attempt_at |-> now,
                       last_error |-> None,
                       subject |-> <<>>,
                       body |-> <<>>,
                       simulated_sent_at |-> None,
                       created_at |-> now,
                       updated_at |-> now]
                 /\ disk' = db'
      ]_vars

\* the call of a job submitted for b@x.io was answered 200
C11_Witness ==
    /\ http_last # None
    /\ Unwrap(http_last).correlation_id = CidLongA
    /\ Unwrap(http_last).outcome.kind = "response"
    /\ Unwrap(http_last).outcome.status = 200
    /\ JobStateIn(db, CidLongA) = "Confirmed"
    /\ JobOf(db, CidLongA).central_response_json = Some("{\"id\":\"b-42\"}")
    /\ HasNotif(db, CidLongA)
    /\ NotifOf(db, CidLongA).email_to = "b@x.io"
    /\ NotifOf(db, CidLongA).state = "Pending"
    /\ faults = 0

(***************************************************************************)
(* C12  Hard rejection.  When the HTTP call of a job ends in a status      *)
(* outside 200..299 and no storage call fails, the job goes from Sending   *)
(* to Failed in that step, with http_status the code, central_response     *)
(* the body and last_error "HTTP {code}: {body}", attempts and everything  *)
(* else but updated_at as before, on stable storage, and without a         *)
(* NotificationRecord.  No step starts an HTTP call for a job stored as    *)
(* Failed or creates a NotificationRecord for it.                          *)
(***************************************************************************)
C12_HardRejection ==
    [][ \A c \in Cids :
          /\ (/\ EndStep(c)
              /\ StorageOk
              /\ Unwrap(http_last').outcome.kind = "response"
              /\ ~is_success(Unwrap(http_last').outcome.status)) =>
                LET outcome == Unwrap(http_last').outcome
                IN  /\ JobStateIn(db, c) = "Sending"
                    /\ JobOf(db', c) =
                         [JobOf(db, c) EXCEPT
                             !.state = "Failed",
                             !.http_status = Some(outcome.status),
                             !.central_response_json = Some(outcome.body),
                             !.last_error =
                                 Some(<<"HTTP ", StatusString(outcome.status),
                                        ": ", outcome.body>>),
                             !.updated_at = now]
                    /\ JobOf(db', c).attempts = JobOf(db, c).attempts
                    /\ ~HasNotif(db', c)
                    /\ disk' = db'
          /\ JobStateIn(db, c) = "Failed" =>
                /\ http_calls'[c] = http_calls[c]
                /\ ~HasNotif(db', c)
                /\ \A f \in SingleForwarder : fw_job'[f] = None \/
                      Unwrap(fw_job'[f]).correlation_id # c
      ]_vars

\* the first call of a job was answered 422
C12_Witness ==
    /\ http_last # None
    /\ Unwrap(http_last).correlation_id = CidLongA
    /\ Unwrap(http_last).outcome.kind = "response"
    /\ Unwrap(http_last).outcome.status = 422
    /\ JobStateIn(db, CidLongA) = "Failed"
    /\ JobOf(db, CidLongA).http_status = Some(422)
    /\ JobOf(db, CidLongA).attempts = 0
    /\ http_calls[CidLongA] = 1
    /\ now > JobOf(db, CidLongA).updated_at
    /\ ~HasNotif(db, CidLongA)

(***************************************************************************)
(* C13  Retry scheduling.  When the HTTP call of a job ends in a network   *)
(* error, a timeout or a body-read failure with attempts + 1 <=            *)
(* max_retry_attempts and no storage call fails, the job goes from         *)
(* Sending to Queued with attempts one higher, last_error the error text   *)
(* and next_attempt_at = now + d, d a backoff of attempts + 1 (between     *)
(* the floor of C7 and the floor plus the jitter), nothing else changed    *)
(* but updated_at.  A Queued job leaves Queued only when the Forwarder     *)
(* starts an attempt for it, and an attempt starts only for a job stored   *)
(* as Queued whose next_attempt_at has passed.                             *)
(***************************************************************************)
C13_RetryScheduling ==
    [][ \A c \in Cids :
          /\ (/\ EndStep(c)
              /\ StorageOk
              /\ Unwrap(http_last').outcome.kind # "response"
              /\ JobOf(db, c).attempts + 1 <= MaxRetryAttempts) =>
                LET outcome == Unwrap(http_last').outcome
                    old     == JobOf(db, c)
                    new     == JobOf(db', c)
                    floor   == SpecBackoffFloor(InitialBackoffMs,
                                                old.attempts + 1)
                IN  /\ old.state = "Sending"
                    /\ new = [old EXCEPT
                                !.state = "Queued",
                                !.attempts = old.attempts + 1,
                                !.last_error = Some(<<outcome.error>>),
                                !.next_attempt_at = new.next_attempt_at,
                                !.updated_at = now]
                    /\ now + floor <= new.next_attempt_at
                    /\ new.next_attempt_at <= now + floor + JITTER_MS
                    /\ disk' = db'
          /\ (JobStateIn(db, c) = "Queued" /\ ~CrashStep
                /\ JobStateIn(db', c) # "Queued") =>
                /\ JobStateIn(db', c) = "Sending"
                /\ JobOf(db, c).next_attempt_at <= now
          /\ http_calls'[c] # http_calls[c] =>
                /\ http_calls'[c] = http_calls[c] + 1
                /\ JobStateIn(db, c) = "Queued"
                /\ JobOf(db, c).next_attempt_at <= now
      ]_vars

\* a body-read failure sent the job back to Queued, and its next attempt
\* is not due yet
C13_Witness ==
    /\ http_last # None
    /\ Unwrap(http_last).correlation_id = CidLongA
    /\ Unwrap(http_last).outcome.kind = "body_error"
    /\ JobStateIn(db, CidLongA) = "Queued"
    /\ JobOf(db, CidLongA).attempts = 1
    /\ JobOf(db, CidLongA).last_error = Some(<<"error decoding response body">>)
    /\ JobOf(db, CidLongA).next_attempt_at =
          JobOf(db, CidLongA).updated_at + 2 * InitialBackoffMs + JITTER_MS
    /\ now < JobOf(db, CidLongA).next_attempt_at
    /\ http_calls[CidLongA] = 1

(***************************************************************************)
(* C14  Exactly one notification emission per confirmed job.  In every     *)
(* run, with storage errors and restarts, the notification sink has        *)
(* received at most one emission for an id, and none for an id whose job   *)
(* was never written as Confirmed.                                         *)
(***************************************************************************)
C14_OneEmission ==
    \A c \in Cids :
      /\ sink[c] <= 1
      /\ sink[c] > 0 => c \in ever_confirmed

(***************************************************************************)
(* C15  Happy-path liveness.  For every correlation id, once a submission  *)
(* of it has been acknowledged "queued", with the Central API answering    *)
(* 200, no crash and no storage error, and the Forwarder's and the         *)
(* Notifier's ticks fairly scheduled, the job is eventually Confirmed and  *)
(* its notification SimulatedSent.                                         *)
(***************************************************************************)
AckedQueued(c) == reply = Some([correlation_id |-> c, status |-> "queued"])
Delivered(c) ==
    /\ JobStateIn(db, c) = "Confirmed"
    /\ HasNotif(db, c)
    /\ NotifOf(db, c).state = "SimulatedSent"

C15_HappyPathLiveness == \A c \in Cids : AckedQueued(c) ~> Delivered(c)

(***************************************************************************)
(* C16  Crash safety.  When the process is killed while the ACK last sent  *)
(* is "queued" and the Forwarder has not picked that job (no call made     *)
(* for it, not in the scanned batch), then after the restart on the same   *)
(* db_path the job is stored as Queued with attempts 0 and the due-job     *)
(* scan succeeds and returns it.                                           *)
(***************************************************************************)
NotPicked(c) ==
    /\ http_calls[c] = 0
    /\ \A f \in SingleForwarder :
          /\ fw_job[f] = None
          /\ \A i \in 1..Len(fw_batch[f]) : fw_batch[f][i].correlation_id # c

Returned(scanned, c) ==
    /\ scanned.ok
    /\ \E i \in 1..Len(scanned.val) : scanned.val[i].correlation_id = c

C16_CrashSafety ==
    [][ (CrashStep /\ reply # None /\ Unwrap(reply).status = "queued"
           /\ NotPicked(Unwrap(reply).correlation_id)) =>
          LET c == Unwrap(reply).correlation_id
          IN  /\ HasJob(db', c)
              /\ JobOf(db', c).state = "Queued"
              /\ JobOf(db', c).attempts = 0
              /\ Returned(get_due_jobs(db', BatchLimit, now', "none"), c)
      ]_vars

(***************************************************************************)
(* C17  Durable transitions.  A terminal state that was reported to a      *)
(* client survives a crash: when the process is killed while the ACK last  *)
(* sent is "confirmed" or "failed", after the restart the job of that id   *)
(* is stored in the state that was reported, not in Queued or Sending,     *)
(* and its attempts is not lower than before the crash.                    *)
(***************************************************************************)
C17_DurableTransitions ==
    [][ (CrashStep /\ reply # None
           /\ Unwrap(reply).status \in {"confirmed", "failed"}) =>
          LET c == Unwrap(reply).correlation_id
          IN  /\ HasJob(db', c)
              /\ AckStatus(JobOf(db', c).state) = Unwrap(reply).status
              /\ JobOf(db', c).attempts >= JobOf(db, c).attempts
      ]_vars

(***************************************************************************)
(* C18  Due-job scan result.  A successful get_due_jobs(limit) returns at  *)
(* most limit jobs; each is the stored record of a job in Queued with      *)
(* next_attempt_at <= now; they are in ascending order of next_attempt_at  *)
(* and, where that is equal, in the byte order of the correlation ids.     *)
(* So no job in Sending, Confirmed or Failed and no job due in the future  *)
(* is returned, and none twice.                                            *)
(***************************************************************************)
C18_DueJobScan ==
    (api # None /\ Unwrap(api).op = "get_due_jobs"
        /\ IsSome(Unwrap(api).result) /\ Unwrap(Unwrap(api).result).ok) =>
       LET call == Unwrap(api)
           jobs == Unwrap(call.result).val
       IN  /\ Len(jobs) <= call.limit
           /\ \A i \in 1..Len(jobs) :
                 /\ jobs[i].state = "Queued"
                 /\ jobs[i].next_attempt_at <= call.now
                 /\ HasJob(call.db, jobs[i].correlation_id)
                 /\ jobs[i] = JobOf(call.db, jobs[i].correlation_id)
           /\ \A i \in 1..Len(jobs), j \in 1..Len(jobs) :
                 i < j =>
                   \/ jobs[i].next_attempt_at < jobs[j].next_attempt_at
                   \/ /\ jobs[i].next_attempt_at = jobs[j].next_attempt_at
                      /\ CidRank(jobs[i].correlation_id)
                            < CidRank(jobs[j].correlation_id)

\* three due jobs were returned: the two submitted at time 0 in the order
\* of their ids, then the one submitted at time 1 whose id is the lowest
C18_Witness ==
    /\ api # None
    /\ Unwrap(api).op = "get_due_jobs"
    /\ IsSome(Unwrap(api).result)
    /\ Unwrap(Unwrap(api).result).ok
    /\ LET jobs == Unwrap(Unwrap(api).result).val
       IN  /\ Len(jobs) = 3
           /\ jobs[1].correlation_id = CidLongB
           /\ jobs[2].correlation_id = CidLongC
           /\ jobs[3].correlation_id = CidLongA
           /\ jobs[1].next_attempt_at = jobs[2].next_attempt_at
           /\ jobs[3].next_attempt_at > jobs[2].next_attempt_at

(***************************************************************************)
(* C19  At most one notification per job.  After persist_notification      *)
(* the outbox holds exactly one NotificationRecord of the id; when the     *)
(* outbox already held a record of that id, the call returns Ok and        *)
(* leaves the whole store as it was, so a SimulatedSent record is not set  *)
(* back to Pending.                                                        *)
(***************************************************************************)
NotifRecords(d, cid) ==
    {key \in DOMAIN d.notification_outbox :
        /\ d.notification_outbox[key] # EmptyBytes
        /\ d.notification_outbox[key][1].correlation_id = cid}

C19_OneNotificationPerJob ==
    (api # None /\ Unwrap(api).op = "persist_notification"
        /\ IsSome(Unwrap(api).result)) =>
       LET call == Unwrap(api)
           c    == call.notif.correlation_id
           r    == Unwrap(call.result)
       IN  /\ r.ok
           /\ \A x \in ApiCids : Cardinality(NotifRecords(r.db, x)) <= 1
           /\ NotifRecords(r.db, c) = {RecKey(c)}
           /\ HasNotif(call.db, c) =>
                 /\ r.db = call.db
                 /\ r.disk = call.db
                 /\ NotifOf(r.db, c) = NotifOf(call.db, c)

\* a second persist_notification met a SimulatedSent record and left it
C19_Witness ==
    /\ api # None
    /\ Unwrap(api).op = "persist_notification"
    /\ IsSome(Unwrap(api).result)
    /\ LET call == Unwrap(api)
           c    == call.notif.correlation_id
       IN  /\ HasNotif(call.db, c)
           /\ NotifOf(call.db, c).state = "SimulatedSent"
           /\ call.notif.state = "Pending"
           /\ call.notif.email_to # NotifOf(call.db, c).email_to
           /\ NotifOf(Unwrap(call.result).db, c).state = "SimulatedSent"

(***************************************************************************)
(* C20  Notification state machine.  A NotificationRecord appears only in  *)
(* Pending and never disappears.  Every step other than a crash that       *)
(* changes a stored record is a Notifier step on that record which finds   *)
(* the job of the same id stored as Confirmed, takes the record from       *)
(* Pending to SimulatedSent and sets simulated_sent_at to now and subject  *)
(* and body to the email built from the job, nothing else but updated_at.  *)
(* No record is ever in Failed, a record in SimulatedSent is not changed   *)
(* by any such step, and a record that stable storage holds as             *)
(* SimulatedSent never changes.                                            *)
(***************************************************************************)
C20_NotificationStateMachine ==
    [][ \A c \in Cids :
          /\ ~CrashStep =>
               /\ HasNotif(db, c) => HasNotif(db', c)
               /\ (~HasNotif(db, c) /\ HasNotif(db', c)) =>
                     NotifOf(db', c).state = "Pending"
               /\ (HasNotif(db, c) /\ NotifOf(db', c) # NotifOf(db, c)) =>
                     LET old   == NotifOf(db, c)
                         email == build_email(JobOf(db, c))
                     IN  /\ old.state = "Pending"
                         /\ nt_batch # <<>>
                         /\ Head(nt_batch).correlation_id = c
                         /\ nt_batch' = Tail(nt_batch)
                         /\ JobStateIn(db, c) = "Confirmed"
                         /\ email.ok
                         /\ NotifOf(db', c) =
                              [old EXCEPT
                                  !.state = "SimulatedSent",
                                  !.simulated_sent_at = Some(now),
                                  !.subject = email.subject,
                                  !.body = email.body,
                                  !.updated_at = now]
          /\ HasNotif(db', c) =>
                NotifOf(db', c).state \in {"Pending", "SimulatedSent"}
          /\ (HasNotif(disk, c)
                /\ NotifOf(disk, c).state = "SimulatedSent") =>
                /\ HasNotif(disk', c)
                /\ NotifOf(disk', c) = NotifOf(disk, c)
      ]_vars

\* the notification of a job was sent at time 0, and the clock, the
\* Notifier and a restart have gone on since
C20_Witness ==
    /\ HasNotif(db, CidLongA)
    /\ NotifOf(db, CidLongA).state = "SimulatedSent"
    /\ NotifOf(db, CidLongA).simulated_sent_at = Some(0)
    /\ NotifOf(db, CidLongA).subject = <<"Booking Confirmed - ", "Bob">>
    /\ NotifOf(disk, CidLongA) = NotifOf(db, CidLongA)
    /\ sink[CidLongA] = 1
    /\ now > 0
    /\ crashes = 1

(***************************************************************************)
(* C21: atomic insert-if-absent under concurrency.  When callers race on   *)
(* one correlation_id, the insert of persist_booking_job never overwrites  *)
(* a record that is already stored: at the moment a caller of              *)
(* persist_booking_job writes its record, the key holds no record.         *)
(***************************************************************************)
PersistInsertStep(i) ==
    /\ Racing
    /\ i \in DOMAIN Unwrap(api).callers
    /\ Unwrap(api).callers[i].method = "persist_booking_job"
    /\ Unwrap(api).callers[i].pc = "insert"
    /\ Unwrap(api').callers[i].pc = "index"

C21_AtomicInsertIfAbsent ==
    [][\A i \in 1..MaxRaceCallers :
          PersistInsertStep(i) => ~HasJob(Unwrap(api).db, RaceCid)]_vars

(***************************************************************************)
(* C22: per-key serialized read-modify-write.  When two update_job_state   *)
(* calls on one correlation_id have both returned Ok, the stored record is *)
(* the initial record with both patches applied one after the other, in    *)
(* one of the two orders.                                                  *)
(***************************************************************************)
BothUpdatesDone ==
    /\ Racing
    /\ Len(Unwrap(api).callers) = 2
    /\ \A i \in 1..2 :
          /\ Unwrap(api).callers[i].method = "update_job_state"
          /\ Unwrap(api).callers[i].result = "ok"

C22_SerializedUpdates ==
    BothUpdatesDone =>
        LET race == Unwrap(api)
            r0 == JobOf(race.initial, RaceCid)
            a == race.callers[1].arg
            b == race.callers[2].arg
        IN  JobOf(race.db, RaceCid) \in
                {PatchedJob(PatchedJob(r0, a, RaceTime), b, RaceTime),
                 PatchedJob(PatchedJob(r0, b, RaceTime), a, RaceTime)}

(***************************************************************************)
(* C23: every SubmitBooking request received by the swarm loop gets        *)
(* exactly one BookingAck, for the request's correlation_id, with status   *)
(* queued, confirmed, failed or error; the status is error exactly when    *)
(* the role is not Gateway, no broker handler is installed, or the handler *)
(* returned an error; in the first two cases the store is not touched; and *)
(* when a storage operation of the handler failed the ACK is not queued,   *)
(* confirmed or failed.                                                    *)
(***************************************************************************)
SubmitAnswered ==
    /\ api # None
    /\ Unwrap(api).op = "submit_booking"
    /\ Unwrap(api).result # None

C23_SubmitBookingAck ==
    SubmitAnswered =>
        LET call == Unwrap(api)
            res == Unwrap(call.result)
            h == handle_submit_booking(call.db, call.db, call.correlation_id,
                     call.payload.booking, call.payload.notify, call.now,
                     call.fault)
            refused == call.role # "Gateway" \/ call.broker_handler = None
            storage_failed ==
                \/ ~get_booking_job(call.db, call.correlation_id,
                                    FaultAt(call.fault, 1)).ok
                \/ /\ ~HasJob(call.db, call.correlation_id)
                   /\ FaultAt(call.fault, 2) # "none"
        IN  /\ Len(res.sent) = 1
            /\ res.sent[1].correlation_id = call.correlation_id
            /\ res.sent[1].status \in {"queued", "confirmed", "failed", "error"}
            /\ res.sent[1].status = "error" <=> (refused \/ ~h.ok)
            /\ refused => res.db = call.db /\ res.disk = call.db
            /\ (~refused /\ storage_failed) => res.sent[1].status = "error"

C23_Witness ==
    /\ SubmitAnswered
    /\ Unwrap(api).role = "Gateway"
    /\ Unwrap(api).broker_handler # None
    /\ Unwrap(api).fault.at = "flush"
    /\ ~HasJob(Unwrap(api).db, Unwrap(api).correlation_id)
    /\ HasJob(Unwrap(Unwrap(api).result).db, Unwrap(api).correlation_id)
    /\ Unwrap(Unwrap(api).result).sent = <<BookingAck(Unwrap(api).correlation_id, "error")>>

(***************************************************************************)
(* C24, as claimed: the attempts field of a stored job equals the number   *)
(* of HTTP calls the Forwarder has made for that job.                      *)
(***************************************************************************)
C24_AttemptsCountHttpCalls ==
    \A c \in Cids : HasJob(db, c) => JobOf(db, c).attempts = http_calls[c]

(***************************************************************************)
(* C24, amended: the attempts field of a stored job counts the forwarding  *)
(* attempts that ended in a network error or an unreadable response body:  *)
(* it never exceeds their number, which never exceeds the number of HTTP   *)
(* calls made, and it equals their number as long as no storage operation  *)
(* has failed.  A call that was answered (200 or 422) is not counted.      *)
(***************************************************************************)
C24_AttemptsCountRetries ==
    \A c \in Cids :
        HasJob(db, c) =>
            /\ JobOf(db, c).attempts <= net_errs[c]
            /\ net_errs[c] <= http_calls[c]
            /\ faults = 0 => JobOf(db, c).attempts = net_errs[c]

\* a network error, then an answer 200: two HTTP calls, attempts 1
C24_Witness ==
    /\ HasJob(db, CidLongA)
    /\ JobOf(db, CidLongA).state = "Confirmed"
    /\ JobOf(db, CidLongA).attempts = 1
    /\ net_errs[CidLongA] = 1
    /\ http_calls[CidLongA] = 2
    /\ faults = 0

(***************************************************************************)
(* C25: the attempts field of a job never decreases.  Across every step    *)
(* of the broker other than a crash (submits, Forwarder scans, attempts    *)
(* and retries, Notifier steps, clock, flush) the attempts of each job in  *)
(* the store is at least what it was; and across every step, a crash and   *)
(* restart included, so is the attempts of each job on stable storage.     *)
(***************************************************************************)
C25_AttemptsNeverDecrease ==
    [][\A c \in Cids :
          /\ (~CrashStep /\ HasJob(db, c) /\ HasJob(db', c)) =>
                JobOf(db', c).attempts >= JobOf(db, c).attempts
          /\ (HasJob(disk, c) /\ HasJob(disk', c)) =>
                JobOf(disk', c).attempts >= JobOf(disk, c).attempts]_vars

\* a job that was retried once and is in its second attempt
C25_Witness ==
    /\ HasJob(db, CidLongA)
    /\ JobOf(db, CidLongA).state = "Sending"
    /\ JobOf(db, CidLongA).attempts = 1
    /\ http_calls[CidLongA] = 2
    /\ HasJob(disk, CidLongA)
    /\ JobOf(disk, CidLongA).attempts = 1

(***************************************************************************)
(* C26: update_job_state for a correlation_id with no stored job, and      *)
(* update_notification_state for one with no stored notification, fail     *)
(* with the not-found error and write nothing: both trees, in memory and   *)
(* on stable storage, are what they were, index entries included.          *)
(***************************************************************************)
UpdateAnswered(op) ==
    /\ api # None
    /\ Unwrap(api).op = op
    /\ Unwrap(api).result # None

C26_UpdateAbsentKey ==
    /\ (UpdateAnswered("update_job_state")
          /\ ~HasJob(Unwrap(api).db, Unwrap(api).correlation_id)) =>
        LET call == Unwrap(api)
            res == Unwrap(call.result)
        IN  /\ ~res.ok
            /\ call.error = Some(<<"Job not found: ", call.correlation_id>>)
            /\ res.db = call.db
            /\ res.disk = call.db
    /\ (UpdateAnswered("update_notification_state")
          /\ ~HasNotif(Unwrap(api).db, Unwrap(api).correlation_id)) =>
        LET call == Unwrap(api)
            res == Unwrap(call.result)
        IN  /\ ~res.ok
            /\ call.error =
                  Some(<<"Notification not found: ", call.correlation_id>>)
            /\ res.db = call.db
            /\ res.disk = call.db

\* a retry patch for an id that is not stored, in a store that holds the
\* Queued job of another id
C26_Witness ==
    /\ UpdateAnswered("update_job_state")
    /\ Unwrap(api).correlation_id = CidLongB
    /\ Unwrap(api).update.state = "Queued"
    /\ ~HasJob(Unwrap(api).db, CidLongB)
    /\ HasJob(Unwrap(api).db, CidLongA)
    /\ JobOf(Unwrap(api).db, CidLongA).state = "Queued"
    /\ ~Unwrap(Unwrap(api).result).ok

(***************************************************************************)
(* C27: the due scans read records and only records.  In every state of    *)
(* the broker get_due_jobs and get_due_notifications succeed, whatever the *)
(* length of the stored ids; every Queued job with next_attempt_at <= now  *)
(* is among the jobs returned (the batch limit is above the number of      *)
(* jobs); and whatever is returned is a stored record.                     *)
(***************************************************************************)
C27_ScansReadRecordsOnly ==
    LET jobs == get_due_jobs(db, BatchLimit, now, "none")
        notifs == get_due_notifications(db, BatchLimit, now, "none")
    IN  /\ jobs.ok
        /\ notifs.ok
        /\ \A c \in Cids :
              (HasJob(db, c) /\ JobOf(db, c).state = "Queued"
                 /\ JobOf(db, c).next_attempt_at <= now) =>
                  \E i \in 1..Len(jobs.val) : jobs.val[i] = JobOf(db, c)
        /\ \A i \in 1..Len(jobs.val) :
              /\ HasJob(db, jobs.val[i].correlation_id)
              /\ jobs.val[i] = JobOf(db, jobs.val[i].correlation_id)
        /\ \A i \in 1..Len(notifs.val) :
              /\ HasNotif(db, notifs.val[i].correlation_id)
              /\ notifs.val[i] = NotifOf(db, notifs.val[i].correlation_id)

(***************************************************************************)
(* C28, as claimed: with two Forwarder instances on one store a job never  *)
(* has two forwarding attempts in flight at the same time.                 *)
(***************************************************************************)
InFlight(f, c) ==
    fw_job[f] # None /\ Unwrap(fw_job[f]).correlation_id = c

C28_OneAttemptInFlight ==
    \A c \in Cids : ~(InFlight(1, c) /\ InFlight(2, c))

(***************************************************************************)
(* C28, amended: the lease is what a scan sees.  Every job a scan of       *)
(* either instance returns was stored as Queued when the scan read it, so  *)
(* a job the other instance has moved to Sending, and that is still        *)
(* Sending, is skipped.  (Two instances that both scanned the job while it *)
(* was Queued both forward it.)                                            *)
(***************************************************************************)
C28_SoftLease ==
    (api # None /\ Unwrap(api).op = "process_due_jobs") =>
        LET scan == Unwrap(api)
        IN  /\ \A i \in 1..Len(scan.jobs) :
                  /\ HasJob(scan.db, scan.jobs[i].correlation_id)
                  /\ JobOf(scan.db, scan.jobs[i].correlation_id).state
                        = "Queued"
            /\ \A c \in Cids :
                  (HasJob(scan.db, c) /\ JobOf(scan.db, c).state = "Sending")
                      => \A i \in 1..Len(scan.jobs) :
                            scan.jobs[i].correlation_id # c

\* instance 2 has just scanned while the attempt of instance 1 is in
\* flight and the job is stored as Sending: it got nothing
C28_Witness ==
    /\ api # None
    /\ Unwrap(api).op = "process_due_jobs"
    /\ Unwrap(api).forwarder = 2
    /\ Unwrap(api).db = db
    /\ Unwrap(api).jobs = <<>>
    /\ InFlight(1, CidLongA)
    /\ JobOf(db, CidLongA).state = "Sending"
    /\ JobOf(db, CidLongA).next_attempt_at <= now
    /\ fw_batch[2] = <<>>

(***************************************************************************)
(* C29: a job that is Sending on stable storage when the process crashes   *)
(* is Sending after the restart and stays so: it is in no batch of the     *)
(* Forwarder and no attempt for it is in flight, no further HTTP call is   *)
(* made for it, and it never becomes Queued, Confirmed or Failed.          *)
(***************************************************************************)
InBatch(f, c) ==
    \E i \in 1..Len(fw_batch[f]) : fw_batch[f][i].correlation_id = c

StuckInSending(c) ==
    /\ HasJob(db, c) /\ JobOf(db, c).state = "Sending"
    /\ HasJob(disk, c) /\ JobOf(disk, c).state = "Sending"
    /\ \A f \in ForwarderIds : ~InFlight(f, c) /\ ~InBatch(f, c)

C29_SendingStaysSending ==
    [][\A c \in Cids :
          /\ (CrashStep /\ HasJob(disk, c)
                /\ JobOf(disk, c).state = "Sending") => StuckInSending(c)'
          /\ StuckInSending(c) =>
                /\ StuckInSending(c)'
                /\ http_calls'[c] = http_calls[c]]_vars

\* after the restart: the job is due, was resubmitted and acknowledged as
\* queued, and is still Sending with the one HTTP call made before the crash
C29_Witness ==
    /\ crashes = 1
    /\ StuckInSending(CidLongA)
    /\ JobOf(db, CidLongA).next_attempt_at <= now
    /\ http_calls[CidLongA] = 1
    /\ nsubmits = 2
    /\ reply = Some(BookingAck(CidLongA, "queued"))

(***************************************************************************)
(* C30: update_job_state on a stored job overwrites state, the fields the  *)
(* patch holds and updated_at, and nothing else: correlation_id, the       *)
(* booking and notify payloads and created_at are what they were, a field  *)
(* the patch leaves out keeps its value, the jobs of the other ids and the *)
(* notifications are untouched; so the patch of the Queued -> Sending      *)
(* transition, which holds the state alone, leaves attempts,               *)
(* next_attempt_at, last_error, http_status and central_response as they   *)
(* were.                                                                   *)
(***************************************************************************)
Kept(patched, old) == IF IsSome(patched) THEN Unwrap(patched) ELSE old

KeptOption(patched, old) == IF IsSome(patched) THEN patched ELSE old

C30_UpdateFrame ==
    (UpdateAnswered("update_job_state")
        /\ HasJob(Unwrap(api).db, Unwrap(api).correlation_id)) =>
        LET call == Unwrap(api)
            res == Unwrap(call.result)
            u == call.update
            old == JobOf(call.db, call.correlation_id)
            new == JobOf(res.db, call.correlation_id)
        IN  /\ res.ok
            /\ HasJob(res.db, call.correlation_id)
            /\ new.correlation_id = old.correlation_id
            /\ new.booking_json = old.booking_json
            /\ new.notify_json = old.notify_json
            /\ new.created_at = old.created_at
            /\ new.state = u.state
            /\ new.updated_at = call.now
            /\ new.attempts = Kept(u.attempts, old.attempts)
            /\ new.next_attempt_at = Kept(u.next_attempt_at, old.next_attempt_at)
            /\ new.last_error = KeptOption(u.last_error, old.last_error)
            /\ new.http_status = KeptOption(u.http_status, old.http_status)
            /\ new.central_response_json =
                  KeptOption(u.central_response_json, old.central_response_json)
            /\ (old.state = "Queued" /\ u.state = "Sending") =>
                  /\ new.attempts = old.attempts
                  /\ new.next_attempt_at = old.next_attempt_at
                  /\ new.last_error = old.last_error
                  /\ new.http_status = old.http_status
                  /\ new.central_response_json = old.central_response_json
            /\ \A c \in ApiCids \ {call.correlation_id} :
                  JobIn(res.db, c) = JobIn(call.db, c)
            /\ res.db.notification_outbox = call.db.notification_outbox
            /\ res.disk = res.db

\* the Sending patch on a job that a retry sent back to Queued: attempts 1,
\* the retry's schedule and its error are kept
C30_Witness ==
    /\ UpdateAnswered("update_job_state")
    /\ Unwrap(api).correlation_id = CidLongA
    /\ Unwrap(api).update.state = "Sending"
    /\ HasJob(Unwrap(api).db, CidLongA)
    /\ JobOf(Unwrap(api).db, CidLongA).state = "Queued"
    /\ JobOf(Unwrap(api).db, CidLongA).attempts = 1
    /\ JobOf(Unwrap(api).db, CidLongA).last_error # None
    /\ JobOf(Unwrap(Unwrap(api).result).db, CidLongA).state = "Sending"
    /\ JobOf(Unwrap(Unwrap(api).result).db, CidLongA).attempts = 1
    /\ JobOf(Unwrap(Unwrap(api).result).db, CidLongA).last_error
          = JobOf(Unwrap(api).db, CidLongA).last_error
    /\ JobOf(Unwrap(Unwrap(api).result).db, CidLongA).updated_at = ApiUpdateTime

(***************************************************************************)
(* C31  The Notifier and a job that is not Confirmed.  When a Notifier     *)
(* tick processes a due notification whose job is missing from the store   *)
(* or is in a state other than Confirmed, it writes no line to the sink    *)
(* for it and leaves the NotificationRecord as it was, in memory and on    *)
(* disk (still Pending, same attempts and next_attempt_at), so the scan of *)
(* the next tick returns it again.                                         *)
(***************************************************************************)
InSeq(x, s) == \E i \in 1..Len(s) : s[i] = x

NotifierTicked ==
    /\ IsSome(api)
    /\ Unwrap(api).op = "run"
    /\ Unwrap(api).worker = "notifier"
    /\ IsSome(Unwrap(api).last)

\* the notifications of the last batch whose job was not there to confirm
Premature(w) ==
    {c \in ApiCids :
        /\ InSeq(c, Unwrap(w.last).processed)
        /\ JobStateIn(Unwrap(w.last).before, c) # "Confirmed"}

DueAgain(w, c) ==
    LET scan == get_due_notifications(w.db, BatchLimit, w.now + 1, "none")
    IN  /\ scan.ok
        /\ \E i \in 1..Len(scan.val) : scan.val[i].correlation_id = c

C31_NotConfirmedSkipped ==
    NotifierTicked =>
        LET w == Unwrap(api)
        IN  \A c \in Premature(w) :
               /\ ~InSeq(c, Unwrap(w.last).called)
               /\ NotifIn(w.db, c) = NotifIn(Unwrap(w.last).before, c)
               /\ NotifIn(w.disk, c) = NotifIn(Unwrap(w.last).before, c)
               /\ NotifOf(w.db, c).state = "Pending"
               /\ DueAgain(w, c)

\* one tick met a notification without a job and one whose job is Queued
C31_Witness ==
    /\ NotifierTicked
    /\ \E c1, c2 \in Premature(Unwrap(api)) :
          /\ JobStateIn(Unwrap(Unwrap(api).last).before, c1) = "Absent"
          /\ JobStateIn(Unwrap(Unwrap(api).last).before, c2) = "Queued"

(***************************************************************************)
(* C32  Per-item failure isolation.  A job of the scanned batch whose      *)
(* processing fails (a storage error, a stored payload that does not       *)
(* parse) does not stop the tick: every job of the batch is handed to      *)
(* process_job, and every job that did not fail itself gets its HTTP call  *)
(* and the write of its outcome.  The same holds for the notifications of  *)
(* a Notifier tick.  Whatever a tick returns, the loop of the worker goes  *)
(* on.                                                                     *)
(***************************************************************************)
WorkerTicked ==
    /\ IsSome(api)
    /\ Unwrap(api).op = "run"
    /\ IsSome(Unwrap(api).last)

ItemDone(w, c) ==
    IF w.worker = "forwarder"
    THEN /\ InSeq(c, Unwrap(w.last).called)
         /\ JobStateIn(w.db, c) \in
               (IF Unwrap(w.last).plan.outcome = OkResponse
                THEN {"Confirmed"} ELSE {"Queued", "Failed"})
    ELSE JobStateIn(Unwrap(w.last).before, c) = "Confirmed" =>
            /\ InSeq(c, Unwrap(w.last).called)
            /\ NotifOf(w.db, c).state = "SimulatedSent"

JobEnded(c) == JobStateIn(db, c) \in Terminal

C33_ForwardingTerminates == \A c \in Cids : AckedQueued(c) ~> JobEnded(c)

(***************************************************************************)
(* C34  Bounded forwarding.  With one Forwarder, a step that issues an     *)
(* HTTP call for a job is the step whose Sending write succeeded: the job  *)
(* was stored as Queued before it (so neither Confirmed nor Failed) and is *)
(* stored as Sending after it, in memory and on disk; it issues one call,  *)
(* and the calls made for the job over its whole life are then at most     *)
(* max_retry_attempts + 1.  While the call is in flight the job stays      *)
(* Sending.                                                                *)
(***************************************************************************)
HttpCallStep(c) == http_calls'[c] # http_calls[c]

C34_BoundedForwarding ==
    [][\A c \in Cids :
          /\ HttpCallStep(c) =>
                /\ JobStateIn(db, c) = "Queued"
                /\ JobStateIn(db', c) = "Sending"
                /\ JobStateIn(disk', c) = "Sending"
                /\ http_calls'[c] = http_calls[c] + 1
                /\ http_calls'[c] <= MaxRetryAttempts + 1
                /\ \E f \in SingleForwarder :
                      /\ fw_job'[f] # None
                      /\ Unwrap(fw_job'[f]).correlation_id = c
          /\ \A f \in SingleForwarder :
                (fw_job'[f] # None /\ Unwrap(fw_job'[f]).correlation_id = c)
                    => JobStateIn(db', c) = "Sending"]_vars

\* the last call allowed has just been issued, after a retry
C34_Witness ==
    /\ http_calls[CidLongA] = MaxRetryAttempts + 1
    /\ net_errs[CidLongA] = MaxRetryAttempts
    /\ fw_job[1] # None
    /\ JobStateIn(db, CidLongA) = "Sending"
    /\ JobOf(db, CidLongA).attempts = MaxRetryAttempts

(***************************************************************************)
(* C35  A failed submit leaves no trace.  When handle_submit_booking       *)
(* returns an error for a correlation id that had no job, the store holds  *)
(* afterwards, in memory and on disk, no job record and no index entry of  *)
(* that id, so that a retransmission is handled as a first submission.     *)
(***************************************************************************)
EntriesOf(d, c) == {key \in DOMAIN d.booking_jobs : key.cid = c}

FailedFirstSubmit(c) ==
    /\ SubmitStep
    /\ reply' = Some([correlation_id |-> c, status |-> "error"])
    /\ EntriesOf(db, c) = {}

C35_FailedSubmitLeavesNoTrace ==
    [][\A c \in Cids :
          FailedFirstSubmit(c) =>
              EntriesOf(db', c) = {} /\ EntriesOf(disk', c) = {}]_vars

(***************************************************************************)
(* C36  Confirmed jobs get their notification.  With the ticks of the      *)
(* Forwarder and of the Notifier fairly scheduled, every job that is       *)
(* Confirmed eventually has a NotificationRecord in state SimulatedSent,   *)
(* also when the insert of the notification fails or the process crashes   *)
(* after the Confirmed write.                                              *)
(***************************************************************************)
JobConfirmed(c) == JobStateIn(db, c) = "Confirmed"
NotificationSent(c) == HasNotif(db, c) /\ NotifOf(db, c).state = "SimulatedSent"

C36_ConfirmedGetsNotified ==
    \A c \in Cids : JobConfirmed(c) ~> NotificationSent(c)

(***************************************************************************)
(* C37  No job is stranded in Sending by a storage error.  In a run        *)
(* without a crash, when an attempt of the Forwarder for a job has         *)
(* returned - at the Sending write, or after the HTTP call and the write   *)
(* of its outcome, with Ok or with Err - the job is not stored as Sending. *)
(***************************************************************************)
AttemptReturned(c) ==
    /\ crashes' = crashes
    /\ \E f \in SingleForwarder :
          /\ fw_job'[f] = None
          /\ \/ /\ fw_job[f] # None
                /\ Unwrap(fw_job[f]).correlation_id = c
             \/ /\ fw_job[f] = None
                /\ fw_batch[f] # <<>>
                /\ Head(fw_batch[f]).correlation_id = c
                /\ fw_batch'[f] = Tail(fw_batch[f])

C37_NotStrandedInSending ==
    [][\A c \in Cids :
          (crashes' = 0 /\ AttemptReturned(c)) =>
              JobStateIn(db', c) # "Sending"]_vars

(***************************************************************************)
(* C38  Oldest-first batching.  When more than limit jobs are due, a       *)
(* successful get_due_jobs(limit) returns the limit jobs with the smallest *)
(* next_attempt_at: a due job is left out only when limit jobs are         *)
(* returned and none of them became due later than it.                     *)
(***************************************************************************)
DueIn(d, c, t) ==
    /\ JobStateIn(d, c) = "Queued"
    /\ JobOf(d, c).next_attempt_at <= t

ScanAnswered ==
    /\ api # None
    /\ Unwrap(api).op = "get_due_jobs"
    /\ IsSome(Unwrap(api).result)
    /\ Unwrap(Unwrap(api).result).ok

C38_OldestFirst ==
    ScanAnswered =>
       LET call == Unwrap(api)
           jobs == Unwrap(call.result).val
       IN  \A c \in ApiCids :
              (/\ DueIn(call.db, c, call.now)
               /\ \A i \in 1..Len(jobs) : jobs[i].correlation_id # c) =>
                  /\ Len(jobs) = call.limit
                  /\ \A i \in 1..Len(jobs) :
                        jobs[i].next_attempt_at
                            <= JobOf(call.db, c).next_attempt_at

(***************************************************************************)
(* C39  Terminal states under two Forwarders.  With two Forwarder          *)
(* instances on one store, no step writes a job stored as Confirmed or     *)
(* Failed back to Sending or Queued (or to the other terminal state), and  *)
(* no step replaces its http_status or its central_response.               *)
(***************************************************************************)
C39_TerminalUnderTwoForwarders ==
    [][\A c \in Cids :
          JobStateIn(db, c) \in Terminal =>
              /\ JobStateIn(db', c) = JobStateIn(db, c)
              /\ JobOf(db', c).http_status = JobOf(db, c).http_status
              /\ JobOf(db', c).central_response_json
                    = JobOf(db, c).central_response_json]_vars

(***************************************************************************)
(* C40  Field consistency of job records.  In every reachable state, in    *)
(* memory and on disk: a Confirmed job has an http_status in 200..299 and  *)
(* a central_response; a Failed job has a last_error; a job has an         *)
(* http_status only if it is Confirmed or Failed; attempts is at most      *)
(* max_retry_attempts + 1, and at most max_retry_attempts for a job in     *)
(* Queued or Sending.                                                      *)
(***************************************************************************)
FieldsConsistent(job) ==
    /\ job.state = "Confirmed" =>
          /\ IsSome(job.http_status)
          /\ Unwrap(job.http_status) \in 200..299
          /\ IsSome(job.central_response_json)
    /\ job.state = "Failed" => IsSome(job.last_error)
    /\ IsSome(job.http_status) => job.state \in Terminal
    /\ job.attempts <= MaxRetryAttempts + 1
    /\ job.state \in {"Queued", "Sending"} => job.attempts <= MaxRetryAttempts

C40_FieldConsistency ==
    \A c \in Cids :
       /\ HasJob(db, c) => FieldsConsistent(JobOf(db, c))
       /\ HasJob(disk, c) => FieldsConsistent(JobOf(disk, c))

\* a job confirmed at its last allowed attempt, after a retry
C40_Witness ==
    /\ JobStateIn(db, CidLongA) = "Confirmed"
    /\ JobStateIn(disk, CidLongA) = "Confirmed"
    /\ JobOf(db, CidLongA).attempts = MaxRetryAttempts
    /\ JobOf(db, CidLongA).http_status = Some(200)
    /\ IsSome(JobOf(db, CidLongA).last_error)

=============================================================================
